---- MODULE Spec2Model ----
(***************************************************************************)
(* State-machine model of the Mafia game server: the per-session phase     *)
(* engine (backend/app/api/routes.py, backend/app/core/engine_graph.py),   *)
(* the forced-choice oracle client (backend/app/core/llm_openrouter.py),   *)
(* the per-session lock (backend/app/core/locks.py) and the broadcast bus  *)
(* (backend/app/api/ws.py).                                                *)
(*                                                                         *)
(* The server runs on one asyncio event loop: a coroutine runs without     *)
(* interruption from one await to the next.  Each action below is one such *)
(* run of one task; cur names the task that is running between two awaits  *)
(* (None when every task is suspended at an await, so that any of them,    *)
(* or a new request, may run next).                                        *)
(***************************************************************************)
EXTENDS Integers, Sequences, FiniteSets, TLC

(***************************************************************************)
(* Bounds of the model.                                                    *)
(***************************************************************************)
MaxStarts == 1   \* calls of start(id) explored from a new session
MaxLoops == 2    \* timer loops a session can have
MaxSteps == 1    \* calls of step(id)
MaxToggles == 1  \* calls of pause(id) and of resume(id), together
MaxPlayers == 5  \* num_players of the configurations create_new_game is given
MaxChats == 2    \* lines said by players: later decide calls return an empty public_text
MaxSockets == 3  \* WebSocket connections a session's stream is given
MaxMoves == 2    \* connects and disconnects during one call of manager.broadcast

None == "None"

\* schemas.py Phase
Discussion == "Discussion"
Voting == "Voting"
Defense == "Defense"
Judgment == "Judgment"
LastWords == "Last Words"
Night == "Night"
GameOver == "Game Over"
Phase == {Discussion, Voting, Defense, Judgment, LastWords, Night, GameOver}

\* schemas.py Role
Villager == "Villager"
Mafia == "Mafia"
Detective == "Detective"
Role == {Villager, Mafia, Detective}

(***************************************************************************)
(* Sequence helpers (Python list idioms).                                  *)
(***************************************************************************)
Range(s) == {s[i] : i \in 1..Len(s)}

\* s[-k:]
LastN(s, k) == IF Len(s) <= k THEN s ELSE SubSeq(s, Len(s) - k + 1, Len(s))

\* s[k:] with k a 0-based Python index
From(s, k) == IF k >= Len(s) THEN <<>> ELSE SubSeq(s, k + 1, Len(s))

\* the ascending list of the members of a finite set of integers
RECURSIVE Sorted(_)
Sorted(S) ==
    IF S = {} THEN <<>>
    ELSE LET m == CHOOSE x \in S : \A y \in S : x <= y
         IN <<m>> \o Sorted(S \ {m})

Max2(a, b) == IF a >= b THEN a ELSE b

(***************************************************************************)
(* Player names.  create_new_game names player i "Player_<i>"; a name is   *)
(* modelled by its index, and the string order of two names (Python's      *)
(* sorted() on str) by the lexicographic order of their decimal digits.    *)
(***************************************************************************)
RECURSIVE Digits(_)
Digits(i) == IF i < 10 THEN <<i>> ELSE Digits(i \div 10) \o <<i % 10>>

RECURSIVE LexLess(_, _)
LexLess(a, b) ==
    IF b = <<>> THEN FALSE
    ELSE IF a = <<>> THEN TRUE
    ELSE IF Head(a) # Head(b) THEN Head(a) < Head(b)
    ELSE LexLess(Tail(a), Tail(b))

\* "Player_i" < "Player_j" as Python strings
NameLess(i, j) == LexLess(Digits(i), Digits(j))

\* sorted(names)[0]
SortedFirst(S) == CHOOSE x \in S : \A y \in S \ {x} : NameLess(x, y)


(***************************************************************************)
(* Strings.  A string is a sequence of tokens; "x in y" (substring),       *)
(* lower() and strip() act on tokens.  "Player_" is one token, each digit  *)
(* is one token, and "abstain", "guilty", "innocent" are one token each.   *)
(***************************************************************************)
DigitTok == <<"0", "1", "2", "3", "4", "5", "6", "7", "8", "9">>

\* f"Player_{i}" (routes.py create_new_game)
PName(i) == <<"Player_">> \o [k \in 1..Len(Digits(i)) |-> DigitTok[Digits(i)[k] + 1]]

Abstain == <<"abstain">>
Guilty == <<"guilty">>
Innocent == <<"innocent">>

\* str.lower()
LowerTok(c) ==
    CASE c = "Player_" -> "player_"
      [] c = "PLAYER_" -> "player_"
      [] c = "Abstain" -> "abstain"
      [] c = "GUILTY" -> "guilty"
      [] OTHER -> c
Lower(s) == [k \in 1..Len(s) |-> LowerTok(s[k])]

\* str.strip('"\'.,!? ')
Punct == {"\"", "'", ".", ",", "!", "?", " "}
RECURSIVE LStrip(_)
LStrip(s) == IF s # <<>> /\ Head(s) \in Punct THEN LStrip(Tail(s)) ELSE s
RECURSIVE RStrip(_)
RStrip(s) ==
    IF s # <<>> /\ s[Len(s)] \in Punct THEN RStrip(SubSeq(s, 1, Len(s) - 1)) ELSE s
Strip(s) == RStrip(LStrip(s))

\* a in b, for strings
Contains(a, b) ==
    \/ a = <<>>
    \/ \E k \in 1..(Len(b) - Len(a) + 1) : SubSeq(b, k, k + Len(a) - 1) = a

(***************************************************************************)
(* llm_openrouter.call_structured_vote: raw.content is the oracle's        *)
(* message content; raw.failed says that the request raised (HTTP error,   *)
(* timeout, malformed body).  The second, "partial matching" loop tests a  *)
(* condition                                                               *)
(* the first loop has already tested for every target, so it never         *)
(* returns.                                                                *)
(***************************************************************************)
VoteMatches(target, clean_vote) ==
    \/ Lower(target) = clean_vote
    \/ Contains(clean_vote, Lower(target))
    \/ Contains(Lower(target), clean_vote)

call_structured_vote(raw, valid_targets) ==
    IF raw.failed THEN Abstain
    ELSE LET clean_vote == Lower(Strip(raw.content))
             hits == {k \in 1..Len(valid_targets) : VoteMatches(valid_targets[k], clean_vote)}
         IN IF hits # {}
            THEN valid_targets[CHOOSE k \in hits : \A j \in hits : k <= j]
            ELSE Abstain


OracleFailure == [failed |-> TRUE, content |-> <<>>]
OracleSays(content) == [failed |-> FALSE, content |-> content]

(***************************************************************************)
(* The session.  game is the one stored GameState (schemas.py); the        *)
(* registry (storage.py) holds the same object from create to the end, and *)
(* save_game re-stores that object.  Players are 0..num_players-1;         *)
(* game.role[p] and game.is_alive[p] are Player.role and Player.is_alive.  *)
(* mafia_votes_collected, mafia_discussion_done and voting_complete are    *)
(* written but never read by any code that runs, and private_memory is     *)
(* only appended to and rendered; they are left out of the state.          *)
(***************************************************************************)
System == -1   \* payload speaker "System"
NoOne == -2    \* Python None where a player id, a speaker or a number is optional

VARIABLES
    game,                       \* storage.games[game_id]
    lock_owner, lock_waiters,   \* locks.game_locks[game_id]: an asyncio.Lock
    pc, loc,                    \* per task: position and local variables
    cur,                        \* the task running between two awaits
    sent,                       \* the messages passed to manager.broadcast so far
    stream,                     \* the logged events among them, in the order of the calls
    active_connections,         \* ws.manager.active_connections[game_id], <<>> when the key is absent
    publish,                    \* one call of manager.broadcast: its iterator and what it delivered
    starts, steps, toggles,     \* requests served so far
    games, game_locks,          \* the keys of storage.games and of locks.game_locks
    reply,                      \* the response to the last request for another id
    call, returned              \* a forced-choice call: its arguments, its return value

vars == <<game, lock_owner, lock_waiters, pc, loc, cur, sent, stream,
          active_connections, publish, starts, steps, toggles,
          games, game_locks, reply, call, returned>>

GameId == "game"                  \* the uuid create_new_game gave the session
OtherIds == {"other", "another"}   \* ids no session was created for
NoReply == [op |-> "none", id |-> "none", status |-> 0]
NoCall == [raw |-> [failed |-> FALSE, content |-> <<>>], valid_targets |-> <<>>]
NotReturned == <<"(pending)">>
NoPublish == [state |-> "idle"]

PlayersOf(g) == 0..(g.config.num_players - 1)
Players == PlayersOf(game)
AlivePlayers(g) == Sorted({p \in PlayersOf(g) : g.is_alive[p]})
MafiaMembers(g) == Sorted({p \in PlayersOf(g) : g.role[p] = Mafia /\ g.is_alive[p]})
MafiaCount(g) == Cardinality({p \in PlayersOf(g) : g.role[p] = Mafia /\ g.is_alive[p]})
TownCount(g) == Cardinality({p \in PlayersOf(g) : g.role[p] # Mafia /\ g.is_alive[p]})

(***************************************************************************)
(* Events.  An event dict is modelled by its type, its phase, its payload  *)
(* speaker (NoOne when the payload has none), the marker its text starts   *)
(* with when the server tests for it (tag), the player a structured        *)
(* payload names (subject: payload.player, payload.killed,                 *)
(* payload.accused) and its private flag.  game_id, ts and day are not     *)
(* read by the server; the words of a text are read only to weight the     *)
(* random choice of the next speaker, never to exclude a choice.           *)
(*   tag "ballot" : the ballot-box marker   tag "target" : the target mark *)
(*   tag "nokill" : the sleep marker        tag "invest" : the detective   *)
(*   tag "text"   : any other text          tag "none"   : no text field   *)
(***************************************************************************)
Event(type, ph, speaker, tag, subject, private) ==
    [type |-> type, phase |-> ph, speaker |-> speaker, tag |-> tag,
     subject |-> subject, private |-> private]

\* a player's chat line
ChatEvent(ph, speaker) == Event("chat", ph, speaker, "text", NoOne, FALSE)
\* a public System chat line
SystemEvent(ph) == Event("chat", ph, System, "text", NoOne, FALSE)
\* a System chat line flagged private, with its marker
PrivateEvent(ph, tag) == Event("chat", ph, System, tag, NoOne, TRUE)

\* routes.py: phase_tick and phase_start messages (broadcast, never logged)
TickMessage(g) ==
    [type |-> "phase_tick", phase |-> g.phase, speaker |-> NoOne, tag |-> "none",
     subject |-> NoOne, private |-> FALSE, secs |-> g.seconds_remaining]
PhaseStartMessage(g) ==
    [type |-> "phase_start", phase |-> g.phase, speaker |-> NoOne, tag |-> "none",
     subject |-> NoOne, private |-> FALSE, secs |-> g.seconds_remaining]

\* an event of the log, as opposed to a phase_tick or phase_start message
IsLoggedEvent(m) == m.type \notin {"phase_tick", "phase_start"}

\* what the spec calls conspirator-only: the private kill-vote, target and no-kill lines
IsConspiratorOnly(e) == e.private /\ e.tag \in {"ballot", "target", "nokill"}
IsInvestigationResult(e) == e.private /\ e.tag = "invest"

(***************************************************************************)
(* Context builders: the events each one renders into the oracle's prompt. *)
(***************************************************************************)
\* engine_graph.py get_player_action (discussion micro-step, last words).
\* No event of this model has a "[Mafia]" speaker: handle_night, the only
\* producer of one, is not reachable from the compiled graph's entry point.
VisibleTo(g, player, t) ==
    \/ ~t.private
    \/ /\ t.speaker = System
       /\ g.role[player] = Mafia
       /\ t.tag \in {"ballot", "target", "nokill"}
    \/ /\ t.speaker = System
       /\ t.tag = "invest"
       /\ g.role[player] = Detective

get_player_action_context(g, player) ==
    LastN(SelectSeq(LastN(g.transcript, 15), LAMBDA t : VisibleTo(g, player, t)), 10)

\* engine_graph.py build_transcript_summary (defense opening, defense discussion)
build_transcript_summary(log) == LastN(log, 10)

\* engine_graph.py collect_day_votes: discussion_context
day_vote_context(g) ==
    SelectSeq(LastN(g.transcript, 15), LAMBDA t : t.type = "chat" /\ ~t.private)

\* engine_graph.py handle_judgment: defense_context
judgment_context(g) ==
    SelectSeq(LastN(g.transcript, 10), LAMBDA t : t.phase = Defense)

\* engine_graph.py collect_mafia_votes: mafia_chat and day_context
mafia_vote_context(g) ==
    SelectSeq(LastN(g.transcript, 20), LAMBDA t : ~t.private)


(***************************************************************************)
(* Tasks.  <<"loop", k>> is the timer loop spawned by the k-th start(id),  *)
(* <<"step", k>> the handler of the k-th step(id).                         *)
(***************************************************************************)
NoTask == <<"none", 0>>
LoopTasks == {<<"loop", k>> : k \in 1..MaxLoops}
StepTasks == {<<"step", k>> : k \in 1..MaxSteps}
Tasks == LoopTasks \cup StepTasks
IsLoop(t) == t[1] = "loop"

\* positions inside advance_game
AdvancePcs == {"ag", "disc_ret", "bc", "dv_start", "dv_ret", "dv_after", "ps_ret",
               "mv_start",
               "jd_start", "jd_ret", "jd_after", "lw_ret", "cw", "cw_ret",
               "mv_ret", "di_start", "di_ret", "n_adv", "nk"}

LocInit ==
    [tick |-> FALSE,        \* is_timer_tick
     entered |-> None,      \* game.phase when the lock was taken (history)
     old_len |-> 0,         \* old_transcript_len / old_len
     spk |-> NoOne,         \* speaker chosen by handle_discussion
     ap |-> <<>>,           \* alive_players of the aggregation round
     vt |-> <<>>,           \* valid_targets of the night calls
     voters |-> <<>>,       \* voters still to poll
     tally |-> <<>>,        \* vote_tally, in insertion order
     jt |-> [guilty |-> 0, innocent |-> 0, abstain |-> 0],   \* handle_judgment tally
     acc |-> NoOne,         \* accused (collect_day_votes result, handle_judgment local)
     verdict |-> None,
     bq |-> <<>>,           \* events still to broadcast by the current for loop
     cont |-> "",           \* position after that loop
     kq |-> <<>>,           \* pending kills still to announce
     ctx |-> <<>>,          \* events in the context of the pending oracle call
     viewer |-> NoOne,      \* the player that call decides for
     builder |-> ""]        \* which builder made ctx

\* a task may run when it is the running one, or when every task is suspended
Runnable(t) == cur = t \/ cur = NoTask

\* where advance_game returns to: game_loop line 79 after a micro-step,
\* the end of the "async with" otherwise
ReturnPc(t, l) == IF IsLoop(t) /\ ~l.tick THEN "after_micro" ELSE "release"

\* the outcome of one run of a task: the session, the task's locals and position,
\* whether it ends at an await, and the messages it passed to broadcast
R(g, l, p, y, out) == [game |-> g, loc |-> l, pc |-> p, yield |-> y, out |-> out]

Apply(t, r) ==
    /\ game' = r.game
    /\ loc' = [loc EXCEPT ![t] = r.loc]
    /\ pc' = [pc EXCEPT ![t] = r.pc]
    /\ cur' = IF r.yield THEN NoTask ELSE t
    /\ sent' = sent \cup Range(r.out)
    /\ stream' = stream \o SelectSeq(r.out, IsLoggedEvent)
    /\ UNCHANGED <<lock_owner, lock_waiters, active_connections, publish, starts,
                   steps, toggles, games, game_locks, reply, call, returned>>

Dur(g, ph) == g.config.phase_durations[ph]
AppendAll(g, evs) == [g EXCEPT !.transcript = g.transcript \o evs]
\* entering Night without loading the configured Night countdown
ToNightKeepingCountdown(g) == [g EXCEPT !.phase = Night]

ToNight(g) == [g EXCEPT !.phase = Night, !.seconds_remaining = Dur(g, Night)]

(***************************************************************************)
(* locks.get_game_lock and asyncio.Lock                                    *)
(***************************************************************************)
\* a lock made anew by every call of get_game_lock is never found held
LockOfEachCall == TRUE

\* get_game_lock returns the one lock of the session; acquire() takes it at once
\* when it is not held
LockIsFree == lock_owner = NoTask

Acquire(t) ==
    /\ game_locks' = game_locks \cup {GameId}
    /\ IF LockIsFree
       THEN /\ lock_owner' = t
            /\ lock_waiters' = lock_waiters
            /\ pc' = [pc EXCEPT ![t] = "locked"]
            /\ cur' = t
       ELSE /\ lock_owner' = lock_owner
            /\ lock_waiters' = Append(lock_waiters, t)
            /\ pc' = [pc EXCEPT ![t] = "wait_lock"]
            /\ cur' = NoTask

\* release(): the longest waiter, if any, owns the lock next
Release(t, next) ==
    IF lock_waiters = <<>>
    THEN /\ lock_owner' = NoTask
         /\ lock_waiters' = <<>>
         /\ pc' = [pc EXCEPT ![t] = next]
    ELSE /\ lock_owner' = Head(lock_waiters)
         /\ lock_waiters' = Tail(lock_waiters)
         /\ pc' = [pc EXCEPT ![t] = next, ![Head(lock_waiters)] = "locked"]


(***************************************************************************)
(* The oracle.  A decide call (call_openrouter) returns a dict whose       *)
(* public_text is empty or not; the text itself is not modelled.  A forced *)
(* choice returns message content, or fails.                               *)
(***************************************************************************)
\* what happens to the request of a decide call: it raises (HTTP error, timeout,
\* malformed body), or the content parses to a dict with or without public_text
DecideFailure == [failed |-> TRUE, text |-> FALSE]
DecideAnswers ==
    {DecideFailure, [failed |-> FALSE, text |-> FALSE], [failed |-> FALSE, text |-> TRUE]}

\* public_text "I am a simple townsperson.", action type "none"
create_dummy_response == [text |-> TRUE]

\* the except branches return create_dummy_response(...)
call_openrouter(raw) ==
    IF raw.failed THEN create_dummy_response ELSE [text |-> raw.text]

DecideOutputs == {call_openrouter(raw) : raw \in DecideAnswers}

\* the answers explored for a decide call in session g
PlayerLines(g) == SelectSeq(g.transcript, LAMBDA e : e.type = "chat" /\ e.speaker >= 0)
DecideOutputsIn(g) ==
    IF Len(PlayerLines(g)) < MaxChats THEN DecideOutputs ELSE {[text |-> FALSE]}

\* what the oracle may answer to a forced choice
RawVotes ==
    {OracleFailure, OracleSays(<<>>), OracleSays(<<"x">>),
     OracleSays(Abstain), OracleSays(<<"GUILTY">>), OracleSays(<<"innocent", ".">>)}
    \cup {OracleSays(PName(p)) : p \in Players}

\* response["action"]["target"] of the detective's decide call
InvestigateOutputs ==
    {[has |-> FALSE, name |-> <<>>]}
    \cup {[has |-> TRUE, name |-> PName(p)] : p \in Players}

\* next(p for p in players if p.name.lower() == vote.lower() and ...), or NoOne
PlayerNamed(g, vote, ok(_)) ==
    LET hits == {p \in PlayersOf(g) : Lower(PName(p)) = Lower(vote) /\ ok(p)}
    IN IF hits = {} THEN NoOne ELSE CHOOSE p \in hits : \A q \in hits : p <= q

\* [p.name for p in players] + ["abstain"]
TargetNames(players) == [k \in 1..Len(players) |-> PName(players[k])] \o <<Abstain>>

(***************************************************************************)
(* vote_tally: a dict, modelled as the sequence of its items in insertion  *)
(* order.  A key is a player, or NoOne for the key "abstain".              *)
(***************************************************************************)
TallyKeys(tally) == {tally[k][1] : k \in 1..Len(tally)}
TallyCount(tally, key) ==
    IF key \in TallyKeys(tally)
    THEN tally[CHOOSE k \in 1..Len(tally) : tally[k][1] = key][2]
    ELSE 0
TallyAdd(tally, key) ==
    IF key \in TallyKeys(tally)
    THEN [k \in 1..Len(tally) |->
            IF tally[k][1] = key THEN <<key, tally[k][2] + 1>> ELSE tally[k]]
    ELSE Append(tally, <<key, 1>>)

\* for player_name, votes in vote_tally.items(): if votes > most_votes: ...
\* the first item, in insertion order, with the highest count
MostVoted(tally) ==
    IF tally = <<>> THEN NoOne
    ELSE LET top == CHOOSE k \in 1..Len(tally) :
                        /\ \A j \in 1..Len(tally) : tally[j][2] <= tally[k][2]
                        /\ \A j \in 1..(k - 1) : tally[j][2] < tally[k][2]
         IN tally[top][1]

\* votes_needed = (len(alive_players) + 1) // 2
VotesNeeded(n) == (n + 1) \div 2

\* collect_day_votes: "if most_voted_name and most_votes >= votes_needed"
HasMajority(tally, n) ==
    MostVoted(tally) # NoOne /\ TallyCount(tally, MostVoted(tally)) >= VotesNeeded(n)

\* collect_day_votes, after the last vote: the accused, or NoOne
NominationResult(g, tally, n) ==
    IF HasMajority(tally, n) /\ g.is_alive[MostVoted(tally)]
    THEN MostVoted(tally)
    ELSE NoOne

\* a kill vote resolved like a nomination: the first leader in insertion order
KillVoteFirstLeader(g, tally) ==
    MostVoted(SelectSeq(tally, LAMBDA kv : kv[1] # NoOne))

\* collect_mafia_votes, after the last vote: the player to kill, or NoOne
KillVoteResult(g, tally) ==
    LET player_votes == TallyKeys(tally) \ {NoOne}
    IN IF player_votes = {} THEN NoOne
       ELSE LET max_votes == CHOOSE m \in {TallyCount(tally, k) : k \in player_votes} :
                                \A k \in player_votes : TallyCount(tally, k) <= m
                top_targets == {k \in player_votes : TallyCount(tally, k) = max_votes}
                chosen == SortedFirst(top_targets)
            IN IF g.is_alive[chosen] /\ g.role[chosen] # Mafia THEN chosen ELSE NoOne

\* a verdict that a tie makes guilty
VerdictTieGuilty(jt) == IF jt.guilty >= jt.innocent THEN "guilty" ELSE "innocent"

\* handle_judgment: verdict = "guilty" if tally["guilty"] > tally["innocent"] else "innocent"
Verdict(jt) == IF jt.guilty > jt.innocent THEN "guilty" ELSE "innocent"

\* handle_judgment: max(remaining_time - 10, 5), remaining_time = last_phase_remaining_time or 0
AcquittalSeconds(g) ==
    LET remaining_time == IF g.last_phase_remaining_time = NoOne
                          THEN 0 ELSE g.last_phase_remaining_time
    IN Max2(remaining_time - 10, 5)


(***************************************************************************)
(* engine_graph.py handle_discussion, the node every graph.ainvoke runs:   *)
(* create_game_graph sets the entry point "discussion" and the only edge   *)
(* out of it leads to END, whatever the phase.                             *)
(***************************************************************************)
RecentChats(g) ==
    SelectSeq(LastN(g.transcript, 5), LAMBDA t : t.type = "chat" /\ ~t.private)

LastSpeaker(g) ==
    IF RecentChats(g) = <<>> THEN NoOne ELSE RecentChats(g)[Len(RecentChats(g))].speaker

\* The players random.choice may return.  A mentioned player is alive and is not
\* the last speaker, so the mention branch picks inside the same pool.
SpeakerPool(g) ==
    LET alive == {p \in PlayersOf(g) : g.is_alive[p]}
        eligible == {p \in alive : p # LastSpeaker(g)}
    IN IF eligible = {} THEN alive ELSE eligible

\* handle_discussion up to the await of get_player_action
discussion_start(g, l, speaker, cont) ==
    IF AlivePlayers(g) = <<>>
    THEN R(g, [l EXCEPT !.bq = <<>>, !.cont = cont], "bc", FALSE, <<>>)
    ELSE R(g, [l EXCEPT !.spk = speaker, !.cont = cont,
                        !.ctx = get_player_action_context(g, speaker),
                        !.viewer = speaker, !.builder = "discussion"],
           "disc_ret", TRUE, <<>>)

\* handle_discussion after the await, then advance_game's "for event in new_events"
discussion_return(g, l, response) ==
    LET g2 == IF response.text
              THEN AppendAll(g, <<ChatEvent(g.phase, l.spk)>>)
              ELSE g
    IN R(g2, [l EXCEPT !.bq = From(g2.transcript, l.old_len),
                       !.ctx = <<>>, !.viewer = NoOne, !.builder = ""],
         "bc", FALSE, <<>>)

(***************************************************************************)
(* routes.py advance_game, from its first line to its first await.         *)
(***************************************************************************)
\* the closing "Broadcast phase start" of advance_game
phase_start(g, l) == R(g, l, "ps_ret", TRUE, <<PhaseStartMessage(g)>>)

\* collect_mafia_votes up to its first forced choice
mafia_votes_start(g, l) ==
    LET members == MafiaMembers(g)
        targets == SelectSeq(AlivePlayers(g), LAMBDA p : g.role[p] # Mafia)
    IN IF members = <<>> \/ targets = <<>>
       THEN R(g, l, "di_start", FALSE, <<>>)
       ELSE R(g, [l EXCEPT !.voters = members, !.vt = targets, !.tally = <<>>,
                           !.ctx = mafia_vote_context(g), !.viewer = Head(members),
                           !.builder = "kill_vote"],
              "mv_ret", TRUE, <<>>)

advance_game_enter(t, g, l0, speaker) ==
    LET l == [l0 EXCEPT !.old_len = Len(g.transcript)]
    IN IF ~l.tick
       THEN IF g.phase \in {Discussion, Defense, Night}
            THEN discussion_start(g, l, speaker, "ret")
            ELSE R(g, l, ReturnPc(t, l), FALSE, <<>>)
       ELSE CASE g.phase = Discussion /\ g.day = 1 ->
                   phase_start(ToNight(g), l)
              [] g.phase = Discussion /\ g.day # 1 ->
                   LET announce_event == SystemEvent(g.phase)
                   IN R(AppendAll(g, <<announce_event>>), l, "dv_start", TRUE,
                        <<announce_event>>)
              [] g.phase = Defense ->
                   LET announce_event == SystemEvent(Judgment)
                   IN R(AppendAll(g, <<announce_event>>), l, "jd_start", TRUE,
                        <<announce_event>>)
              [] g.phase = Judgment ->
                   phase_start([ToNight(g) EXCEPT !.accused_id = NoOne], l)
              [] g.phase = LastWords ->
                   discussion_start(g, l, speaker, "cw")
              [] g.phase = Night ->
                   \* line 250, game.mafia_transcript.append(announce_event): GameState
                   \* (schemas.py) declares no mafia_transcript, the read raises
                   \* AttributeError and the exception leaves advance_game
                   R(g, l, "raise", FALSE, <<>>)
              [] OTHER -> phase_start(g, l)

\* the loop passing every event to manager.broadcast twice
broadcast_loop_resending(t, g, l) ==
    IF l.bq = <<>>
    THEN R(g, l, IF l.cont = "ret" THEN "ps_ret" ELSE l.cont, FALSE, <<>>)
    ELSE R(g, [l EXCEPT !.bq = Tail(l.bq)], "bc", TRUE, <<Head(l.bq), Head(l.bq)>>)

\* "for event in ...: await manager.broadcast(game_id, event)"
broadcast_loop(t, g, l) ==
    IF l.bq = <<>>
    THEN R(g, l, IF l.cont = "ret" THEN "ps_ret" ELSE l.cont, FALSE, <<>>)
    ELSE R(g, [l EXCEPT !.bq = Tail(l.bq)], "bc", TRUE, <<Head(l.bq)>>)


(***************************************************************************)
(* engine_graph.py collect_day_votes and routes.py lines 146-163           *)
(***************************************************************************)
day_votes_start(g, l0) ==
    LET l == [l0 EXCEPT !.old_len = Len(g.transcript)]
        alive_players == AlivePlayers(g)
    IN IF Len(alive_players) < 2
       THEN R(g, [l EXCEPT !.acc = NoOne, !.bq = <<>>, !.cont = "dv_after"], "bc", FALSE, <<>>)
       ELSE R(g, [l EXCEPT !.ap = alive_players, !.voters = alive_players, !.tally = <<>>,
                           !.ctx = day_vote_context(g), !.viewer = Head(alive_players),
                           !.builder = "nomination"],
              "dv_ret", TRUE, <<>>)

\* a tally that books an abstention as a vote for the voter
DayTallyCountingAbstainers(g, tally, voter, vote) ==
    IF Lower(vote) = Abstain THEN TallyAdd(tally, voter)
    ELSE LET target == PlayerNamed(g, vote, LAMBDA p : g.is_alive[p] /\ p # voter)
         IN IF target = NoOne THEN tally ELSE TallyAdd(tally, target)

\* the tally after one nomination vote: counted when the target is a living
\* player other than the voter
DayTally(g, tally, voter, vote) ==
    IF Lower(vote) = Abstain THEN tally
    ELSE LET target == PlayerNamed(g, vote, LAMBDA p : g.is_alive[p] /\ p # voter)
         IN IF target = NoOne THEN tally ELSE TallyAdd(tally, target)

day_votes_return(g, l, raw) ==
    LET voter == Head(l.voters)
        valid_targets == TargetNames(SelectSeq(l.ap, LAMBDA p : p # voter))
        vote == call_structured_vote(raw, valid_targets)
        tally == DayTally(g, l.tally, voter, vote)
        \* vote_event or abstain_event
        g2 == AppendAll(g, <<SystemEvent(g.phase)>>)
        rest == Tail(l.voters)
    IN IF rest # <<>>
       THEN R(g2, [l EXCEPT !.voters = rest, !.tally = tally, !.viewer = Head(rest)],
              "dv_ret", TRUE, <<>>)
       ELSE LET accused == NominationResult(g2, tally, Len(l.ap))
                \* results_event, then trial_event or no_trial_event
                g3 == AppendAll(g2,
                        IF HasMajority(tally, Len(l.ap)) /\ accused = NoOne
                        THEN <<SystemEvent(g.phase)>>
                        ELSE <<SystemEvent(g.phase), SystemEvent(g.phase)>>)
            IN R(g3, [l EXCEPT !.voters = rest, !.tally = tally, !.acc = accused,
                               !.ctx = <<>>, !.viewer = NoOne, !.builder = "",
                               !.bq = From(g3.transcript, l.old_len), !.cont = "dv_after"],
                 "bc", FALSE, <<>>)

\* a nomination that opens a Voting phase before the defense
day_votes_after_to_voting(g, l) ==
    IF l.acc # NoOne
    THEN phase_start([g EXCEPT !.accused_id = l.acc, !.phase = Voting,
                               !.seconds_remaining = Dur(g, Voting)], l)
    ELSE phase_start(ToNight(g), l)

day_votes_after(g, l) ==
    IF l.acc # NoOne
    THEN phase_start([g EXCEPT !.accused_id = l.acc, !.phase = Defense,
                               !.seconds_remaining = Dur(g, Defense)], l)
    ELSE phase_start(ToNight(g), l)

(***************************************************************************)
(* engine_graph.py handle_judgment and routes.py lines 178-216             *)
(***************************************************************************)
judgment_start(g0, l0) ==
    LET g == [g0 EXCEPT !.phase = Judgment]
        l == [l0 EXCEPT !.old_len = Len(g.transcript), !.cont = "jd_after", !.bq = <<>>]
        accused == IF g.accused_id \in PlayersOf(g) THEN g.accused_id ELSE NoOne
        voters == SelectSeq(AlivePlayers(g), LAMBDA p : p # g.accused_id)
    IN IF accused = NoOne
       THEN R([g EXCEPT !.phase = Voting], l, "bc", FALSE, <<>>)
       ELSE IF voters = <<>>
       THEN R(g, l, "bc", FALSE, <<>>)
       ELSE LET g2 == AppendAll(g, <<SystemEvent(g.phase)>>)   \* voting_start_event
            IN R(g2, [l EXCEPT !.acc = accused, !.ap = voters, !.voters = voters,
                               !.jt = LocInit.jt, !.verdict = None,
                               !.ctx = judgment_context(g2), !.viewer = Head(voters),
                               !.builder = "verdict"],
                 "jd_ret", TRUE, <<>>)

\* a verdict tally that leaves abstentions out
JudgmentTallyOfVerdictsOnly(jt, vote) ==
    IF vote = Guilty THEN [jt EXCEPT !.guilty = @ + 1]
    ELSE IF vote = Innocent THEN [jt EXCEPT !.innocent = @ + 1]
    ELSE jt

\* tally[vote] += 1
JudgmentTally(jt, vote) ==
    IF vote = Guilty THEN [jt EXCEPT !.guilty = @ + 1]
    ELSE IF vote = Innocent THEN [jt EXCEPT !.innocent = @ + 1]
    ELSE [jt EXCEPT !.abstain = @ + 1]

judgment_return(g, l, raw) ==
    LET vote == call_structured_vote(raw, <<Guilty, Innocent, Abstain>>)
        jt == JudgmentTally(l.jt, vote)
        g2 == AppendAll(g, <<SystemEvent(g.phase)>>)   \* vote_event
        rest == Tail(l.voters)
    IN IF rest # <<>>
       THEN R(g2, [l EXCEPT !.voters = rest, !.jt = jt, !.viewer = Head(rest)],
              "jd_ret", TRUE, <<>>)
       ELSE LET verdict == Verdict(jt)
                verdict_event == Event("trial_verdict", g.phase, NoOne, "none", l.acc, FALSE)
                g3 == AppendAll(g2, <<verdict_event>>)
                g4 == IF verdict = "guilty"
                      THEN [g3 EXCEPT !.phase = LastWords,
                                      !.seconds_remaining = Dur(g, LastWords)]
                      ELSE AppendAll([g3 EXCEPT !.phase = Voting,
                                                !.seconds_remaining = AcquittalSeconds(g),
                                                !.accused_id = NoOne],
                                     <<SystemEvent(Voting)>>)   \* innocent_event
            IN R(g4, [l EXCEPT !.voters = rest, !.jt = jt, !.verdict = verdict,
                               !.ctx = <<>>, !.viewer = NoOne, !.builder = "",
                               !.bq = From(g4.transcript, l.old_len), !.cont = "jd_after"],
                 "bc", FALSE, <<>>)

\* advance_game without its lines 206-210: the phase handle_judgment set is kept
judgment_after_as_judged(g, l0) ==
    IF g.phase = LastWords /\ g.accused_id \in PlayersOf(g)
    THEN R(g, [l0 EXCEPT !.old_len = Len(g.transcript), !.acc = g.accused_id,
                         !.ctx = get_player_action_context(g, g.accused_id),
                         !.viewer = g.accused_id, !.builder = "last_words"],
           "lw_ret", TRUE, <<>>)
    ELSE phase_start(g, l0)

\* routes.py lines 191-216, up to the await inside handle_last_words
judgment_after(g, l0) ==
    LET l == [l0 EXCEPT !.old_len = Len(g.transcript)]
    IN IF g.phase = LastWords
       THEN IF g.accused_id \in PlayersOf(g)
            THEN R(g, [l EXCEPT !.acc = g.accused_id,
                                !.ctx = get_player_action_context(g, g.accused_id),
                                !.viewer = g.accused_id, !.builder = "last_words"],
                   "lw_ret", TRUE, <<>>)
            ELSE R([ToNight(g) EXCEPT !.accused_id = NoOne],
                   [l EXCEPT !.bq = <<>>, !.cont = "cw"], "bc", FALSE, <<>>)
       ELSE IF g.phase \in {Voting, Judgment}
       THEN phase_start([ToNight(g) EXCEPT !.accused_id = NoOne], l)
       ELSE phase_start(g, l)

\* an execution that leaves accused_id set
last_words_return_keeping_accused(g, l, response) ==
    LET accused == l.acc
        said == IF response.text THEN <<ChatEvent(g.phase, accused)>> ELSE <<>>
        execution_event == Event("execution", g.phase, NoOne, "none", accused, FALSE)
        death_announcement == SystemEvent(g.phase)
        g2 == AppendAll([g EXCEPT !.is_alive[accused] = FALSE],
                        said \o <<execution_event, death_announcement>>)
        g3 == ToNight(g2)
    IN R(g3, [l EXCEPT !.ctx = <<>>, !.viewer = NoOne, !.builder = "",
                       !.bq = From(g3.transcript, l.old_len), !.cont = "cw"],
         "bc", FALSE, <<>>)

\* engine_graph.py handle_last_words after the await
last_words_return(g, l, response) ==
    LET accused == l.acc
        said == IF response.text THEN <<ChatEvent(g.phase, accused)>> ELSE <<>>
        execution_event == Event("execution", g.phase, NoOne, "none", accused, FALSE)
        death_announcement == SystemEvent(g.phase)
        g2 == AppendAll([g EXCEPT !.is_alive[accused] = FALSE],
                        said \o <<execution_event, death_announcement>>)
        g3 == [ToNight(g2) EXCEPT !.accused_id = NoOne]
    IN R(g3, [l EXCEPT !.ctx = <<>>, !.viewer = NoOne, !.builder = "",
                       !.bq = From(g3.transcript, l.old_len), !.cont = "cw"],
         "bc", FALSE, <<>>)

(***************************************************************************)
(* routes.py check_win_condition, and the rest of advance_game after it    *)
(***************************************************************************)
\* a win check that lets the conspirators win only once they outnumber the town
WinnerWhenOutnumbered(g) ==
    IF MafiaCount(g) = 0 THEN "TOWN"
    ELSE IF MafiaCount(g) > TownCount(g) THEN "MAFIA"
    ELSE None

Winner(g) ==
    IF MafiaCount(g) = 0 THEN "TOWN"
    ELSE IF MafiaCount(g) >= TownCount(g) THEN "MAFIA"
    ELSE None

\* a win check that names the winner and leaves the phase as it was
check_win_condition_keeping_phase(g, l) ==
    IF Winner(g) # None
    THEN LET g2 == [g EXCEPT !.winner = Winner(g)]
             event == Event("game_over", GameOver, NoOne, "none", NoOne, FALSE)
         IN R(AppendAll(g2, <<event>>), l, "cw_ret", TRUE, <<event>>)
    ELSE phase_start(g, l)

check_win_condition(g, l) ==
    IF Winner(g) # None
    THEN LET g2 == [g EXCEPT !.winner = Winner(g), !.phase = GameOver]
             event == Event("game_over", GameOver, NoOne, "none", NoOne, FALSE)
         IN R(AppendAll(g2, <<event>>), l, "cw_ret", TRUE, <<event>>)
    ELSE phase_start(g, l)


(***************************************************************************)
(* engine_graph.py collect_mafia_votes, handle_detective_investigation and *)
(* routes.py lines 258-292                                                 *)
(***************************************************************************)
\* the key a kill vote is tallied under
VoteKey(g, vote) ==
    IF Lower(vote) = Abstain THEN NoOne ELSE PlayerNamed(g, vote, LAMBDA p : TRUE)

mafia_votes_return(g, l, raw) ==
    LET vote == call_structured_vote(raw, TargetNames(l.vt))
        tally == TallyAdd(l.tally, VoteKey(g, vote))
        g2 == AppendAll(g, <<PrivateEvent(g.phase, "ballot")>>)   \* vote_event
        rest == Tail(l.voters)
    IN IF rest # <<>>
       THEN R(g2, [l EXCEPT !.voters = rest, !.tally = tally, !.viewer = Head(rest)],
              "mv_ret", TRUE, <<>>)
       ELSE LET target == KillVoteResult(g2, tally)
                g3 == IF TallyKeys(tally) \ {NoOne} = {}
                      THEN AppendAll(g2, <<PrivateEvent(g.phase, "nokill")>>)
                      ELSE IF target # NoOne
                      THEN AppendAll([g2 EXCEPT !.pending_kills = <<target>>],
                                     <<PrivateEvent(g.phase, "target")>>)
                      ELSE g2
            IN R(g3, [l EXCEPT !.voters = rest, !.tally = tally,
                               !.ctx = <<>>, !.viewer = NoOne, !.builder = ""],
                 "di_start", FALSE, <<>>)

\* handle_detective_investigation up to its await
investigation_start(g, l0) ==
    LET l == [l0 EXCEPT !.old_len = Len(g.transcript), !.bq = <<>>, !.cont = "n_adv"]
        detectives == SelectSeq(AlivePlayers(g), LAMBDA p : g.role[p] = Detective)
        valid_targets ==
            SelectSeq(AlivePlayers(g),
                      LAMBDA p : p # Head(detectives) /\ p \notin Range(g.pending_kills))
    IN IF detectives = <<>> THEN R(g, l, "bc", FALSE, <<>>)
       ELSE IF valid_targets = <<>> THEN R(g, l, "bc", FALSE, <<>>)
       ELSE R(g, [l EXCEPT !.vt = valid_targets, !.viewer = Head(detectives),
                           !.builder = "investigate"],
              "di_ret", TRUE, <<>>)

\* next(p for p in valid_targets if clean_name in p.name.lower() ...), or NoOne
InvestigationTarget(valid_targets, response) ==
    IF ~response.has \/ response.name = <<>> THEN NoOne
    ELSE LET clean_name == Lower(response.name)
             hits == {k \in 1..Len(valid_targets) :
                        Contains(clean_name, Lower(PName(valid_targets[k])))}
         IN IF hits = {} THEN NoOne
            ELSE valid_targets[CHOOSE k \in hits : \A j \in hits : k <= j]

investigation_return(g, l, response) ==
    LET target == InvestigationTarget(l.vt, response)
        g2 == IF target # NoOne
              THEN AppendAll(g, <<PrivateEvent(g.phase, "invest")>>)
              ELSE g
    IN R(g2, [l EXCEPT !.viewer = NoOne, !.builder = "",
                       !.bq = From(g2.transcript, l.old_len), !.cont = "n_adv"],
         "bc", FALSE, <<>>)

\* night kills that log the night result of a player twice
night_kills_logged_twice(g, l) ==
    IF l.kq # <<>>
    THEN LET killed == Head(l.kq)
             event == Event("night_result", g.phase, NoOne, "none", killed, FALSE)
         IN IF killed \in PlayersOf(g)
            THEN R(AppendAll([g EXCEPT !.is_alive[killed] = FALSE], <<event, event>>),
                   [l EXCEPT !.kq = Tail(l.kq)], "nk", TRUE, <<event>>)
            ELSE R(g, [l EXCEPT !.kq = Tail(l.kq)], "nk", FALSE, <<>>)
    ELSE check_win_condition([g EXCEPT !.pending_kills = <<>>], l)

\* a Night expiry that skips a day
night_advance_two_days(g, l) ==
    R([g EXCEPT !.day = g.day + 2, !.phase = Discussion,
                !.seconds_remaining = Dur(g, Discussion)],
      [l EXCEPT !.kq = g.pending_kills], "nk", FALSE, <<>>)

\* routes.py lines 264-273: advance to the next day
night_advance(g, l) ==
    R([g EXCEPT !.day = g.day + 1, !.phase = Discussion,
                !.seconds_remaining = Dur(g, Discussion)],
      [l EXCEPT !.kq = g.pending_kills], "nk", FALSE, <<>>)

\* routes.py lines 273-292: one pass of "for killed_id in game.pending_kills",
\* or the end of the loop and the win check
night_kills(g, l) ==
    IF l.kq # <<>>
    THEN LET killed == Head(l.kq)
             event == Event("night_result", g.phase, NoOne, "none", killed, FALSE)
         IN IF killed \in PlayersOf(g)
            THEN R(AppendAll([g EXCEPT !.is_alive[killed] = FALSE], <<event>>),
                   [l EXCEPT !.kq = Tail(l.kq)], "nk", TRUE, <<event>>)
            ELSE R(g, [l EXCEPT !.kq = Tail(l.kq)], "nk", FALSE, <<>>)
    ELSE check_win_condition([g EXCEPT !.pending_kills = <<>>], l)


(***************************************************************************)
(* Configurations and initial state (routes.py create_new_game)            *)
(***************************************************************************)
PhaseDurations(discussion, defense, night) ==
    [ph \in Phase |->
        CASE ph = Discussion -> discussion
          [] ph = Defense -> defense
          [] ph = Night -> night
          [] OTHER -> 5]

\* the configurations explored: three players with a detective, four players
\* with one conspirator, four players with two conspirators
Configs ==
    {[num_players |-> 3, num_mafia |-> 1, has_detective |-> TRUE,
      phase_durations |-> PhaseDurations(5, 5, 1)],
     [num_players |-> 4, num_mafia |-> 1, has_detective |-> FALSE,
      phase_durations |-> PhaseDurations(1, 5, 5)],
     [num_players |-> 4, num_mafia |-> 2, has_detective |-> FALSE,
      phase_durations |-> PhaseDurations(1, 5, 1)]}

\* Python's [x] * n: the empty list when n <= 0
Repeat(x, n) == [i \in 1..n |-> x]

\* a role list that fills up with villagers before the detective is counted
RolesFilledBeforeDetective(c) ==
    Repeat(Mafia, c.num_mafia) \o Repeat(Villager, c.num_players - c.num_mafia)
        \o (IF c.has_detective THEN <<Detective>> ELSE <<>>)

\* lines 309-313: roles = [MAFIA] * num_mafia; roles.append(DETECTIVE) if
\* has_detective; roles += [VILLAGER] * (num_players - len(roles))
RoleList(c) ==
    LET named == Repeat(Mafia, c.num_mafia)
                    \o (IF c.has_detective THEN <<Detective>> ELSE <<>>)
    IN named \o Repeat(Villager, c.num_players - Len(named))

\* random.shuffle(roles), then "role = roles[i]" for i in range(num_players):
\* every order of the list, dealt to Player_0 .. Player_{n-1}
Shuffles(c) ==
    LET roles == RoleList(c)
    IN {[p \in 0..(c.num_players - 1) |-> roles[perm[p + 1]]] :
           perm \in Permutations(1..Len(roles))}

NewGame(c, roles) ==
    [config |-> c,
     role |-> roles,
     is_alive |-> [p \in DOMAIN roles |-> TRUE],
     day |-> 1,
     phase |-> Discussion,
     seconds_remaining |-> 10,
     transcript |-> <<>>,
     is_paused |-> TRUE,
     accused_id |-> NoOne,
     last_phase_remaining_time |-> NoOne,
     pending_kills |-> <<>>,
     winner |-> None]

Init ==
    /\ \E c \in Configs : \E roles \in Shuffles(c) : game = NewGame(c, roles)
    /\ lock_owner = NoTask
    /\ lock_waiters = <<>>
    /\ pc = [t \in Tasks |-> "idle"]
    /\ loc = [t \in Tasks |-> LocInit]
    /\ cur = NoTask
    /\ sent = {}
    /\ stream = <<>>
    /\ active_connections = <<>>
    /\ publish = NoPublish
    /\ starts = 0
    /\ steps = 0
    /\ toggles = 0
    /\ games = {GameId}
    /\ game_locks = {}
    /\ reply = NoReply
    /\ call = NoCall
    /\ returned = NotReturned

(***************************************************************************)
(* call_structured_vote on its own: the oracle's answer and the legal      *)
(* values of one forced-choice call, then the value the call returns.      *)
(***************************************************************************)
\* the players named in the calls: create_new_game names them Player_<i>, so a
\* session of eleven players has a Player_1 and a Player_10
VotePlayers == {0, 1, 2, 10}

\* the oracle's answers: a failed request, an empty, a blank and an unparseable
\* content, the legal words in several spellings, a sentence naming a player
ForcedChoiceAnswers ==
    {OracleFailure, OracleSays(<<>>), OracleSays(<<" ", ".">>), OracleSays(<<"x">>),
     OracleSays(Abstain), OracleSays(<<"Abstain">>), OracleSays(<<"GUILTY">>),
     OracleSays(<<"innocent", ".">>), OracleSays(<<"x", " ">> \o PName(1) \o <<"!">>)}
    \cup {OracleSays(PName(p)) : p \in VotePlayers}

\* valid_targets: [p.name for p in ...] + ["abstain"], and the verdict list
LegalValueLists ==
    {TargetNames(Sorted(ps)) : ps \in SUBSET VotePlayers} \cup {<<Guilty, Innocent, Abstain>>}

InitVote ==
    /\ \E c \in Configs : \E roles \in Shuffles(c) : game = NewGame(c, roles)
    /\ lock_owner = NoTask
    /\ lock_waiters = <<>>
    /\ pc = [t \in Tasks |-> "idle"]
    /\ loc = [t \in Tasks |-> LocInit]
    /\ cur = NoTask
    /\ sent = {}
    /\ stream = <<>>
    /\ active_connections = <<>>
    /\ publish = NoPublish
    /\ starts = 0
    /\ steps = 0
    /\ toggles = 0
    /\ games = {GameId}
    /\ game_locks = {}
    /\ reply = NoReply
    /\ \E raw \in ForcedChoiceAnswers : \E valid_targets \in LegalValueLists :
          call = [raw |-> raw, valid_targets |-> valid_targets]
    /\ returned = NotReturned

StructuredVote ==
    /\ returned = NotReturned
    /\ returned' = call_structured_vote(call.raw, call.valid_targets)
    /\ UNCHANGED <<game, lock_owner, lock_waiters, pc, loc, cur, sent, stream, active_connections, publish, starts, steps,
                   toggles, games, game_locks, reply, call>>

SpecVote == InitVote /\ [][StructuredVote]_vars

(***************************************************************************)
(* ws.py ConnectionManager on its own: one call of broadcast(game_id, m)   *)
(* and the connects and disconnects of main.websocket_endpoint that run    *)
(* while it is suspended at "await connection.send_json(message)".         *)
(***************************************************************************)
Sockets == {<<"ws", k>> : k \in 1..MaxSockets}

\* the lists active_connections[game_id] can be: every socket is appended once
ConnectionLists ==
    {q \in UNION {[1..n -> Sockets] : n \in 0..MaxSockets} :
        \A i, j \in DOMAIN q : q[i] = q[j] => i = j}

\* list.remove(websocket)
Remove(list, websocket) == SelectSeq(list, LAMBDA c : c # websocket)

\* "for connection in self.active_connections[game_id]": the list iterator reads
\* the element at its index in the list as it is now and moves one further, then
\* send_json delivers the message and suspends the coroutine
broadcast_next(p, list) ==
    IF p.detached \/ p.it >= Len(list)
    THEN [p EXCEPT !.state = "done"]
    ELSE [p EXCEPT !.state = "sending",
                   !.it = @ + 1,
                   !.got[list[p.it + 1]] = @ + 1]

InitSockets ==
    /\ \E c \in Configs : \E roles \in Shuffles(c) : game = NewGame(c, roles)
    /\ lock_owner = NoTask
    /\ lock_waiters = <<>>
    /\ pc = [t \in Tasks |-> "idle"]
    /\ loc = [t \in Tasks |-> LocInit]
    /\ cur = NoTask
    /\ sent = {}
    /\ stream = <<>>
    /\ active_connections \in ConnectionLists
    /\ publish = NoPublish
    /\ starts = 0
    /\ steps = 0
    /\ toggles = 0
    /\ games = {GameId}
    /\ game_locks = {}
    /\ reply = NoReply
    /\ call = NoCall
    /\ returned = NotReturned

\* broadcast, lines 23-26, up to the first send
Broadcast ==
    /\ publish.state = "idle"
    /\ publish' =
         IF active_connections = <<>>
         THEN [state |-> "done", it |-> 0, detached |-> FALSE, moves |-> 0,
               got |-> [c \in Sockets |-> 0], throughout |-> {}]
         ELSE broadcast_next([state |-> "sending", it |-> 0, detached |-> FALSE,
                              moves |-> 0, got |-> [c \in Sockets |-> 0],
                              throughout |-> Range(active_connections)],
                             active_connections)
    /\ UNCHANGED <<game, lock_owner, lock_waiters, pc, loc, cur, sent, stream,
                   active_connections, starts, steps, toggles, games, game_locks,
                   reply, call, returned>>

\* send_json returned (or raised, "except: pass"): the next pass of the for loop
BroadcastResume ==
    /\ publish.state = "sending"
    /\ publish' = broadcast_next(publish, active_connections)
    /\ UNCHANGED <<game, lock_owner, lock_waiters, pc, loc, cur, sent, stream,
                   active_connections, starts, steps, toggles, games, game_locks,
                   reply, call, returned>>

\* connect, lines 10-14, while the broadcast is suspended
Connect(websocket) ==
    /\ publish.state = "sending"
    /\ publish.moves < MaxMoves
    /\ websocket \notin Range(active_connections)
    /\ active_connections' = Append(active_connections, websocket)
    /\ publish' = [publish EXCEPT !.moves = @ + 1,
                                  !.throughout = @ \ {websocket}]
    /\ UNCHANGED <<game, lock_owner, lock_waiters, pc, loc, cur, sent, stream,
                   starts, steps, toggles, games, game_locks, reply, call, returned>>

\* disconnect, lines 16-20, while the broadcast is suspended; "del" of the key
\* leaves the iterator on the emptied list, a later connect makes a new list
Disconnect(websocket) ==
    /\ publish.state = "sending"
    /\ publish.moves < MaxMoves
    /\ websocket \in Range(active_connections)
    /\ active_connections' = Remove(active_connections, websocket)
    /\ publish' = [publish EXCEPT !.moves = @ + 1,
                                  !.throughout = @ \ {websocket},
                                  !.detached = @ \/ active_connections' = <<>>]
    /\ UNCHANGED <<game, lock_owner, lock_waiters, pc, loc, cur, sent, stream,
                   starts, steps, toggles, games, game_locks, reply, call, returned>>

NextSockets ==
    \/ Broadcast
    \/ BroadcastResume
    \/ \E websocket \in Sockets : Connect(websocket) \/ Disconnect(websocket)

SpecSockets == InitSockets /\ [][NextSockets]_vars

(***************************************************************************)
(* create_new_game as a request: the GameConfig posted, then the session   *)
(* stored under its new id.                                                *)
(***************************************************************************)
PostedConfigs ==
    {c \in [num_players : 0..MaxPlayers, num_mafia : 0..MaxPlayers,
            has_detective : BOOLEAN, phase_durations : {PhaseDurations(5, 5, 1)}] :
        c.num_mafia + (IF c.has_detective THEN 1 ELSE 0) <= c.num_players}

InitCreate ==
    /\ \E c \in PostedConfigs : game = [config |-> c]
    /\ lock_owner = NoTask
    /\ lock_waiters = <<>>
    /\ pc = [t \in Tasks |-> "idle"]
    /\ loc = [t \in Tasks |-> LocInit]
    /\ cur = NoTask
    /\ sent = {}
    /\ stream = <<>>
    /\ active_connections = <<>>
    /\ publish = NoPublish
    /\ starts = 0
    /\ steps = 0
    /\ toggles = 0
    /\ games = {}
    /\ game_locks = {}
    /\ reply = NoReply
    /\ call = NoCall
    /\ returned = NotReturned

CreateNewGame ==
    /\ games = {}
    /\ \E roles \in Shuffles(game.config) : game' = NewGame(game.config, roles)
    /\ games' = {GameId}
    /\ UNCHANGED <<lock_owner, lock_waiters, pc, loc, cur, sent, stream, active_connections, publish, starts, steps, toggles,
                   game_locks, reply, call, returned>>

SpecCreate == InitCreate /\ [][CreateNewGame]_vars

(***************************************************************************)
(* Requests (routes.py start_game, pause_game, resume_game, step_game)     *)
(***************************************************************************)
StartGame ==
    /\ cur = NoTask
    /\ starts < MaxStarts
    /\ starts' = starts + 1
    /\ game' = [game EXCEPT !.is_paused = FALSE]
    /\ pc' = [pc EXCEPT ![<<"loop", starts + 1>>] = "top"]
    /\ UNCHANGED <<lock_owner, lock_waiters, loc, cur, sent, stream, active_connections, publish, steps, toggles,
                   games, game_locks, reply, call, returned>>

PauseGame ==
    /\ cur = NoTask
    /\ toggles < MaxToggles
    /\ toggles' = toggles + 1
    /\ game' = [game EXCEPT !.is_paused = TRUE]
    /\ UNCHANGED <<lock_owner, lock_waiters, pc, loc, cur, sent, stream, active_connections, publish, starts, steps,
                   games, game_locks, reply, call, returned>>

ResumeGame ==
    /\ cur = NoTask
    /\ toggles < MaxToggles
    /\ toggles' = toggles + 1
    /\ game' = [game EXCEPT !.is_paused = FALSE]
    /\ UNCHANGED <<lock_owner, lock_waiters, pc, loc, cur, sent, stream, active_connections, publish, starts, steps,
                   games, game_locks, reply, call, returned>>

\* step_game: "async with get_game_lock(game_id)"
StepGame ==
    /\ cur = NoTask
    /\ steps < MaxSteps
    /\ steps' = steps + 1
    /\ Acquire(<<"step", steps + 1>>)
    /\ UNCHANGED <<game, loc, sent, stream, active_connections, publish, starts, toggles, games, reply, call, returned>>

(***************************************************************************)
(* The timer loop (routes.py game_loop)                                    *)
(***************************************************************************)
\* lines 57-63: one pass of "while True" up to the lock; a paused pass only sleeps
LoopTop(t) ==
    /\ IsLoop(t)
    /\ pc[t] = "top"
    /\ Runnable(t)
    /\ IF game.phase = GameOver
       THEN /\ pc' = [pc EXCEPT ![t] = "done"]
            /\ cur' = NoTask
            /\ UNCHANGED <<lock_owner, lock_waiters, game_locks>>
       ELSE IF game.is_paused
       THEN /\ cur' = NoTask
            /\ UNCHANGED <<pc, lock_owner, lock_waiters, game_locks>>
       ELSE Acquire(t)
    /\ UNCHANGED <<game, loc, sent, stream, active_connections, publish, starts, steps, toggles, games, reply, call, returned>>

\* the body of "async with": game_loop lines 64-90, step_game line 365,
\* up to the call of advance_game
Locked(t) ==
    /\ pc[t] = "locked"
    /\ Runnable(t)
    /\ LET timer == IsLoop(t) /\ game.seconds_remaining <= 0
           micro == \/ ~IsLoop(t)
                    \/ /\ game.seconds_remaining > 0
                       /\ game.phase \in {Discussion, Night, Defense}
                       /\ game.seconds_remaining % 5 = 0
       IN /\ loc' = [loc EXCEPT ![t] = [LocInit EXCEPT !.tick = timer, !.entered = game.phase]]
          /\ pc' = [pc EXCEPT ![t] = IF timer \/ micro THEN "ag" ELSE "after_micro"]
    /\ cur' = t
    /\ UNCHANGED <<game, lock_owner, lock_waiters, sent, stream, active_connections, publish, starts, steps, toggles,
                   games, game_locks, reply, call, returned>>

\* the loop taking two seconds off the countdown in one iteration
AfterMicroTwoSeconds(t) ==
    /\ pc[t] = "after_micro"
    /\ Runnable(t)
    /\ LET g == [game EXCEPT !.seconds_remaining = @ - 2]
       IN Apply(t, R(g, loc[t], "release", TRUE, <<TickMessage(g)>>))

\* lines 79-87: decrement, broadcast the tick
AfterMicro(t) ==
    /\ pc[t] = "after_micro"
    /\ Runnable(t)
    /\ LET g == [game EXCEPT !.seconds_remaining = @ - 1]
       IN Apply(t, R(g, loc[t], "release", TRUE, <<TickMessage(g)>>))

\* the end of "async with", then asyncio.sleep(1) or the step handler's return
ReleaseLock(t) ==
    /\ pc[t] = "release"
    /\ Runnable(t)
    /\ Release(t, IF IsLoop(t) THEN "top" ELSE "done")
    /\ loc' = [loc EXCEPT ![t] = LocInit]
    /\ cur' = NoTask
    /\ UNCHANGED <<game, sent, stream, active_connections, publish, starts, steps, toggles, games, game_locks, reply,
                   call, returned>>

(***************************************************************************)
(* advance_game, one action per stretch between two awaits                 *)
(***************************************************************************)
AdvanceEnter(t) ==
    /\ pc[t] = "ag"
    /\ Runnable(t)
    /\ \E speaker \in SpeakerPool(game) \cup {NoOne} :
          /\ speaker = NoOne <=> SpeakerPool(game) = {}
          /\ Apply(t, advance_game_enter(t, game, loc[t], speaker))

DiscussionReturn(t) ==
    /\ pc[t] = "disc_ret"
    /\ Runnable(t)
    /\ \E response \in DecideOutputsIn(game) : Apply(t, discussion_return(game, loc[t], response))

BroadcastLoop(t) ==
    /\ pc[t] = "bc"
    /\ Runnable(t)
    /\ Apply(t, broadcast_loop(t, game, loc[t]))

\* save_game(game_id, game); return
SaveAndReturn(t) ==
    /\ pc[t] \in {"ps_ret", "cw_ret"}
    /\ Runnable(t)
    /\ Apply(t, R(game, loc[t], ReturnPc(t, loc[t]), FALSE, <<>>))

DayVotesStart(t) ==
    /\ pc[t] = "dv_start"
    /\ Runnable(t)
    /\ Apply(t, day_votes_start(game, loc[t]))

DayVotesReturn(t) ==
    /\ pc[t] = "dv_ret"
    /\ Runnable(t)
    /\ \E raw \in RawVotes : Apply(t, day_votes_return(game, loc[t], raw))

DayVotesAfter(t) ==
    /\ pc[t] = "dv_after"
    /\ Runnable(t)
    /\ Apply(t, day_votes_after(game, loc[t]))

JudgmentStart(t) ==
    /\ pc[t] = "jd_start"
    /\ Runnable(t)
    /\ Apply(t, judgment_start(game, loc[t]))

JudgmentReturn(t) ==
    /\ pc[t] = "jd_ret"
    /\ Runnable(t)
    /\ \E raw \in RawVotes : Apply(t, judgment_return(game, loc[t], raw))

JudgmentAfter(t) ==
    /\ pc[t] = "jd_after"
    /\ Runnable(t)
    /\ Apply(t, judgment_after(game, loc[t]))

LastWordsReturn(t) ==
    /\ pc[t] = "lw_ret"
    /\ Runnable(t)
    /\ \E response \in DecideOutputsIn(game) : Apply(t, last_words_return(game, loc[t], response))

CheckWin(t) ==
    /\ pc[t] = "cw"
    /\ Runnable(t)
    /\ Apply(t, check_win_condition(game, loc[t]))

\* an exception that ends the task without releasing the lock
RaiseOutHoldingLock(t) ==
    /\ pc[t] = "raise"
    /\ Runnable(t)
    /\ pc' = [pc EXCEPT ![t] = "failed"]
    /\ loc' = [loc EXCEPT ![t] = LocInit]
    /\ cur' = NoTask
    /\ UNCHANGED <<game, lock_owner, lock_waiters, sent, stream, active_connections,
                   publish, starts, steps, toggles, games, game_locks, reply,
                   call, returned>>

\* an exception leaves "async with" (the lock is released) and ends the task
RaiseOut(t) ==
    /\ pc[t] = "raise"
    /\ Runnable(t)
    /\ Release(t, "failed")
    /\ loc' = [loc EXCEPT ![t] = LocInit]
    /\ cur' = NoTask
    /\ UNCHANGED <<game, sent, stream, active_connections, publish, starts, steps, toggles, games, game_locks, reply,
                   call, returned>>

MafiaVotesStart(t) ==
    /\ pc[t] = "mv_start"
    /\ Runnable(t)
    /\ Apply(t, mafia_votes_start(game, loc[t]))

MafiaVotesReturn(t) ==
    /\ pc[t] = "mv_ret"
    /\ Runnable(t)
    /\ \E raw \in RawVotes : Apply(t, mafia_votes_return(game, loc[t], raw))

InvestigationStart(t) ==
    /\ pc[t] = "di_start"
    /\ Runnable(t)
    /\ Apply(t, investigation_start(game, loc[t]))

InvestigationReturn(t) ==
    /\ pc[t] = "di_ret"
    /\ Runnable(t)
    /\ \E response \in InvestigateOutputs :
          Apply(t, investigation_return(game, loc[t], response))

NightAdvance(t) ==
    /\ pc[t] = "n_adv"
    /\ Runnable(t)
    /\ Apply(t, night_advance(game, loc[t]))

NightKills(t) ==
    /\ pc[t] = "nk"
    /\ Runnable(t)
    /\ Apply(t, night_kills(game, loc[t]))

(***************************************************************************)
(* The server: requests, timer loops and step handlers from a new session. *)
(* A Night expiry raises at routes.py line 250, so no run from a new       *)
(* session goes past the first Night.                                      *)
(***************************************************************************)
(***************************************************************************)
(* The same requests for an id that storage.games does not hold.           *)
(***************************************************************************)
\* "if not game: raise HTTPException(status_code=status.HTTP_404_NOT_FOUND)"
NotFound(op, id) ==
    /\ id \notin games
    /\ reply' = [op |-> op, id |-> id, status |-> 404]
    /\ UNCHANGED <<game, lock_owner, lock_waiters, pc, loc, cur, sent, stream, active_connections, publish, starts, steps,
                   toggles, games, game_locks, call, returned>>

StartMissing(id) == NotFound("start", id)

PauseMissing(id) == NotFound("pause", id)

ResumeMissing(id) == NotFound("resume", id)

StatusMissing(id) == NotFound("get", id)

ExportMissing(id) == NotFound("export", id)

\* step_game: get_game_lock(game_id) makes the lock, advance_game returns at
\* "if not game: return", the handler answers {"status": "stepped"}
StepMissing(id) ==
    /\ id \notin games
    /\ game_locks' = game_locks \cup {id}
    /\ reply' = [op |-> "step", id |-> id, status |-> 200]
    /\ UNCHANGED <<game, lock_owner, lock_waiters, pc, loc, cur, sent, stream, active_connections, publish, starts, steps,
                   toggles, games, call, returned>>

NextMissing ==
    \E id \in OtherIds :
        \/ StartMissing(id)
        \/ PauseMissing(id)
        \/ ResumeMissing(id)
        \/ StepMissing(id)
        \/ StatusMissing(id)
        \/ ExportMissing(id)

SpecMissing == Init /\ [][NextMissing]_vars

Next ==
    \/ StartGame
    \/ PauseGame
    \/ ResumeGame
    \/ StepGame
    \/ \E t \in Tasks :
          \/ LoopTop(t)
          \/ Locked(t)
          \/ AfterMicro(t)
          \/ ReleaseLock(t)
          \/ AdvanceEnter(t)
          \/ DiscussionReturn(t)
          \/ BroadcastLoop(t)
          \/ SaveAndReturn(t)
          \/ RaiseOut(t)

Spec == Init /\ [][Next]_vars

(***************************************************************************)
(* A session created from a posted configuration with num_mafia 0, which   *)
(* create_new_game accepts: no player is dealt the Mafia role.             *)
(***************************************************************************)
ConfigsWithoutMafia ==
    {[num_players |-> 3, num_mafia |-> 0, has_detective |-> d,
      phase_durations |-> PhaseDurations(5, 5, 5)] : d \in BOOLEAN}

InitNoMafia ==
    /\ \E c \in ConfigsWithoutMafia : \E roles \in Shuffles(c) : game = NewGame(c, roles)
    /\ lock_owner = NoTask
    /\ lock_waiters = <<>>
    /\ pc = [t \in Tasks |-> "idle"]
    /\ loc = [t \in Tasks |-> LocInit]
    /\ cur = NoTask
    /\ sent = {}
    /\ stream = <<>>
    /\ active_connections = <<>>
    /\ publish = NoPublish
    /\ starts = 0
    /\ steps = 0
    /\ toggles = 0
    /\ games = {GameId}
    /\ game_locks = {}
    /\ reply = NoReply
    /\ call = NoCall
    /\ returned = NotReturned

SpecNoMafia == InitNoMafia /\ [][Next]_vars

(***************************************************************************)
(* A session that is started and never paused, under the scheduling of the *)
(* event loop: a task that can run does run, start(id) is served, every    *)
(* oracle call returns and asyncio.sleep(1) ends.                          *)
(***************************************************************************)
LoopStep(t) ==
    \/ LoopTop(t)
    \/ Locked(t)
    \/ AfterMicro(t)
    \/ ReleaseLock(t)
    \/ AdvanceEnter(t)
    \/ DiscussionReturn(t)
    \/ BroadcastLoop(t)
    \/ SaveAndReturn(t)
    \/ RaiseOut(t)

NextLive ==
    \/ StartGame
    \/ \E t \in LoopTasks : LoopStep(t)

SpecLive ==
    /\ Init
    /\ [][NextLive]_vars
    /\ WF_vars(StartGame)
    /\ \A t \in LoopTasks : WF_vars(LoopStep(t))

\* the same with calls of step(id), whose handler is scheduled like the loop
NextLiveOps ==
    \/ StartGame
    \/ StepGame
    \/ \E t \in Tasks : LoopStep(t)

InitLiveOps == Init /\ game.config.num_players = 3

SpecLiveOps ==
    /\ InitLiveOps
    /\ [][NextLiveOps]_vars
    /\ \A t \in Tasks : WF_vars(LoopStep(t))

(***************************************************************************)
(* start(id) called again on a started session: start_game has no test for *)
(* a loop that is already running, add_task(game_loop) runs at every call. *)
(***************************************************************************)
StartGameAgain ==
    /\ cur = NoTask
    /\ 0 < starts
    /\ starts < MaxLoops
    /\ starts' = starts + 1
    /\ game' = [game EXCEPT !.is_paused = FALSE]
    /\ pc' = [pc EXCEPT ![<<"loop", starts + 1>>] = "top"]
    /\ UNCHANGED <<lock_owner, lock_waiters, loc, cur, sent, stream, active_connections, publish, steps, toggles,
                   games, game_locks, reply, call, returned>>

NextStartTwice ==
    \/ StartGame
    \/ StartGameAgain
    \/ \E t \in LoopTasks :
          \/ LoopTop(t)
          \/ Locked(t)
          \/ AfterMicro(t)
          \/ ReleaseLock(t)
          \/ AdvanceEnter(t)
          \/ DiscussionReturn(t)
          \/ BroadcastLoop(t)
          \/ SaveAndReturn(t)
          \/ RaiseOut(t)

SpecStartTwice == Init /\ [][NextStartTwice]_vars

(***************************************************************************)
(* The end-of-phase handlers.  collect_mafia_votes, the investigation, the *)
(* night kills and every handler of the day that follows run only after    *)
(* routes.py line 250; they are explored from the sessions on which line   *)
(* 254 would call collect_mafia_votes: a new session whose first Night has *)
(* run out, the timer loop holding the lock inside advance_game.           *)
(***************************************************************************)
TimerLoop == <<"loop", 1>>

\* the public log at the end of the first Night
FirstDayLogs(c) == {<<>>, <<ChatEvent(Discussion, 0)>>}

InitNight ==
    /\ \E c \in Configs : \E roles \in Shuffles(c) : \E log \in FirstDayLogs(c) :
          game = [NewGame(c, roles) EXCEPT !.phase = Night, !.seconds_remaining = 0,
                                           !.is_paused = FALSE, !.transcript = log]
    /\ lock_owner = TimerLoop
    /\ lock_waiters = <<>>
    /\ pc = [t \in Tasks |-> IF t = TimerLoop THEN "mv_start" ELSE "idle"]
    /\ loc = [t \in Tasks |->
                IF t = TimerLoop
                THEN [LocInit EXCEPT !.tick = TRUE, !.entered = Night,
                                    !.old_len = Len(game.transcript)]
                ELSE LocInit]
    /\ cur = TimerLoop
    /\ sent = {}        \* the messages broadcast from here on
    /\ stream = game.transcript   \* the first day's events, broadcast when they were logged
    /\ active_connections = <<>>
    /\ publish = NoPublish
    /\ starts = 1
    /\ steps = 0
    /\ toggles = 0
    /\ games = {GameId}
    /\ game_locks = {GameId}
    /\ reply = NoReply
    /\ call = NoCall
    /\ returned = NotReturned

NextNight ==
    \E t \in LoopTasks :
        \/ LoopTop(t)
        \/ Locked(t)
        \/ AfterMicro(t)
        \/ ReleaseLock(t)
        \/ AdvanceEnter(t)
        \/ DiscussionReturn(t)
        \/ BroadcastLoop(t)
        \/ SaveAndReturn(t)
        \/ RaiseOut(t)
        \/ MafiaVotesStart(t)
        \/ MafiaVotesReturn(t)
        \/ InvestigationStart(t)
        \/ InvestigationReturn(t)
        \/ NightAdvance(t)
        \/ NightKills(t)
        \/ CheckWin(t)
        \/ DayVotesStart(t)
        \/ DayVotesReturn(t)
        \/ DayVotesAfter(t)
        \/ JudgmentStart(t)
        \/ JudgmentReturn(t)
        \/ JudgmentAfter(t)
        \/ LastWordsReturn(t)

SpecNight == InitNight /\ [][NextNight]_vars

(***************************************************************************)
(* One iteration of the timer loop at the start of the second day of a     *)
(* five-player session with two conspirators and a detective: the first    *)
(* day's chat, then what the first Night logged (a ballot line for each    *)
(* conspirator, the target or no-kill line, the investigation result, the  *)
(* night_result of the player killed), the countdown at the configured 5.  *)
(***************************************************************************)
FivePlayerConfig ==
    [num_players |-> 5, num_mafia |-> 2, has_detective |-> TRUE,
     phase_durations |-> PhaseDurations(5, 5, 1)]

\* what collect_mafia_votes, handle_detective_investigation and the night kills
\* appended: killed is NoOne when the conspirators chose nobody
NightLog(killed) ==
    <<PrivateEvent(Night, "ballot"), PrivateEvent(Night, "ballot"),
      PrivateEvent(Night, IF killed = NoOne THEN "nokill" ELSE "target"),
      PrivateEvent(Night, "invest")>>
    \o (IF killed = NoOne THEN <<>>
        ELSE <<Event("night_result", Discussion, NoOne, "none", killed, FALSE)>>)

SecondDay(roles, first_day, killed) ==
    [NewGame(FivePlayerConfig, roles) EXCEPT
        !.day = 2,
        !.seconds_remaining = 5,
        !.is_paused = FALSE,
        !.is_alive = [p \in DOMAIN roles |-> p # killed],
        !.transcript = first_day \o NightLog(killed)]

InitSecondDay ==
    /\ \E roles \in Shuffles(FivePlayerConfig) :
       \E first_day \in {<<>>} \cup {<<ChatEvent(Discussion, p)>> : p \in DOMAIN roles} :
       \E killed \in {p \in DOMAIN roles : roles[p] # Mafia} \cup {NoOne} :
          game = SecondDay(roles, first_day, killed)
    /\ lock_owner = TimerLoop
    /\ lock_waiters = <<>>
    /\ pc = [t \in Tasks |-> IF t = TimerLoop THEN "locked" ELSE "idle"]
    /\ loc = [t \in Tasks |-> LocInit]
    /\ cur = TimerLoop
    /\ sent = {}
    /\ stream = game.transcript
    /\ active_connections = <<>>
    /\ publish = NoPublish
    /\ starts = 1
    /\ steps = 0
    /\ toggles = 0
    /\ games = {GameId}
    /\ game_locks = {GameId}
    /\ reply = NoReply
    /\ call = NoCall
    /\ returned = NotReturned

NextSecondDay ==
    \/ Locked(TimerLoop)
    \/ AdvanceEnter(TimerLoop)
    \/ DiscussionReturn(TimerLoop)
    \/ BroadcastLoop(TimerLoop)
    \/ SaveAndReturn(TimerLoop)
    \/ AfterMicro(TimerLoop)
    \/ ReleaseLock(TimerLoop)

SpecSecondDay == InitSecondDay /\ [][NextSecondDay]_vars

(***************************************************************************)
(* start_game spawns a loop at every call: the same sessions after two     *)
(* calls of start(id), the second loop asleep in asyncio.sleep(1).         *)
(***************************************************************************)
InitTwoLoops ==
    /\ \E c \in Configs : \E roles \in Shuffles(c) : \E log \in FirstDayLogs(c) :
          game = [NewGame(c, roles) EXCEPT !.phase = Night, !.seconds_remaining = 0,
                                           !.is_paused = FALSE, !.transcript = log]
    /\ lock_owner = TimerLoop
    /\ lock_waiters = <<>>
    /\ pc = [t \in Tasks |-> IF t = TimerLoop THEN "mv_start"
                             ELSE IF IsLoop(t) THEN "top" ELSE "idle"]
    /\ loc = [t \in Tasks |->
                IF t = TimerLoop
                THEN [LocInit EXCEPT !.tick = TRUE, !.entered = Night,
                                    !.old_len = Len(game.transcript)]
                ELSE LocInit]
    /\ cur = TimerLoop
    /\ sent = {}
    /\ stream = game.transcript
    /\ active_connections = <<>>
    /\ publish = NoPublish
    /\ starts = MaxLoops
    /\ steps = 0
    /\ toggles = 0
    /\ games = {GameId}
    /\ game_locks = {GameId}
    /\ reply = NoReply
    /\ call = NoCall
    /\ returned = NotReturned

SpecTwoLoops == InitTwoLoops /\ [][NextNight]_vars

(***************************************************************************)
(* The same sessions with the requests of a client added: pause, resume    *)
(* and one manual step, which runs advance_game(game_id) under the lock.   *)
(* The three-player configuration keeps the state space small.             *)
(***************************************************************************)
InitNightOps == InitNight /\ game.config.num_players = 3

StepTaskNext ==
    \E t \in StepTasks :
        \/ Locked(t)
        \/ AdvanceEnter(t)
        \/ DiscussionReturn(t)
        \/ BroadcastLoop(t)
        \/ SaveAndReturn(t)
        \/ ReleaseLock(t)

NextNightOps ==
    \/ PauseGame
    \/ ResumeGame
    \/ StepGame
    \/ StepTaskNext
    \/ NextNight

SpecNightOps == InitNightOps /\ [][NextNightOps]_vars

(***************************************************************************)
(* What leaves the server: the status query and the subscribe snapshot.    *)
(***************************************************************************)
\* routes.py get_game_status: data = game.dict(); data.pop("mafia_transcript", None)
get_game_status(g) == [k \in DOMAIN g \ {"mafia_transcript"} |-> g[k]]

\* main.py websocket_endpoint: the payload of the snapshot sent on subscribe
SnapshotPayload(g) == [k \in DOMAIN g \ {"mafia_transcript"} |-> g[k]]

\* engine_graph.py handle_defense: the transcript_summary that
\* _handle_opening_defense and _handle_defense_discussion put in the prompt of
\* the accused or of a challenger, when the accused is set and alive
defense_context(g) == build_transcript_summary(g.transcript)
DefenseSpeakers(g) ==
    IF g.phase = Defense /\ g.accused_id \in PlayersOf(g) /\ g.is_alive[g.accused_id]
    THEN {p \in PlayersOf(g) : g.is_alive[p]}
    ELSE {}

(***************************************************************************)
(* Properties                                                              *)
(***************************************************************************)
InAdvanceGame(t) == pc[t] \in AdvancePcs

\* C1: for one session, at most one execution of advance_game is in progress at
\* any time, suspension points included: a timer loop's and a step handler's
\* executions never overlap.
AdvanceGameNeverOverlaps ==
    Cardinality({t \in Tasks : InAdvanceGame(t)}) <= 1

\* a step handler waits for the lock while a timer loop is suspended inside advance_game
StepWaitsForAdvancingLoop ==
    /\ cur = NoTask
    /\ \E t \in LoopTasks, u \in StepTasks : InAdvanceGame(t) /\ pc[u] = "wait_lock"

\* the events of ctx that player viewer must not be shown
Forbidden(g, viewer, ctx) ==
    {k \in 1..Len(ctx) :
        \/ g.role[viewer] # Mafia /\ IsConspiratorOnly(ctx[k])
        \/ g.role[viewer] # Detective /\ IsInvestigationResult(ctx[k])}

CeilHalf(n) == (n \div 2) + (n % 2)

\* task t has polled every voter of a nomination round
NominationPolled(t) == pc[t] = "dv_after"

KillVotePolled(t) == pc[t] = "di_start" /\ loc[t].tally # <<>>
KillVoted(t) == TallyKeys(loc[t].tally) \ {NoOne}

\* C8: after a kill-vote round, if some vote was not abstain, exactly one player is
\* the pending elimination: a living non-conspirator with the highest count, the
\* one with the smallest name among the leaders; if every vote was abstain, nobody
\* is pending and nobody's alive flag has changed.
KillVoteChoosesSmallestLeader ==
    \A t \in Tasks :
       KillVotePolled(t) =>
          IF KillVoted(t) # {}
          THEN /\ Len(game.pending_kills) = 1
               /\ LET k == game.pending_kills[1]
                  IN /\ k \in KillVoted(t)
                     /\ game.is_alive[k] /\ game.role[k] # Mafia
                     /\ \A j \in KillVoted(t) :
                           TallyCount(loc[t].tally, j) <= TallyCount(loc[t].tally, k)
                     /\ \A j \in KillVoted(t) \ {k} :
                           TallyCount(loc[t].tally, j) = TallyCount(loc[t].tally, k)
                              => NameLess(k, j)
          ELSE /\ game.pending_kills = <<>>
               /\ \A p \in Players : game.is_alive[p]

\* two leaders tie, and the pending elimination is not the one that was voted first
KillVoteTieBrokenByName ==
    \E t \in Tasks :
       /\ KillVotePolled(t)
       /\ Len(loc[t].tally) = 2
       /\ loc[t].tally[1][2] = loc[t].tally[2][2]
       /\ NoOne \notin TallyKeys(loc[t].tally)
       /\ game.pending_kills = <<loc[t].tally[2][1]>>

\* C9: in the judgment vote each living player other than the accused is counted
\* once, in one of guilty, innocent, abstain; the verdict is guilty if and only if
\* the guilty count is greater than the innocent count.
JudgmentCountsEachVoterOnce ==
    \A t \in Tasks :
       LET n == Cardinality({p \in Players : game.is_alive[p] /\ p # loc[t].acc})
           counted == loc[t].jt.guilty + loc[t].jt.innocent + loc[t].jt.abstain
       IN /\ pc[t] = "jd_ret" => counted + Len(loc[t].voters) = n
          /\ (pc[t] = "bc" /\ loc[t].verdict # None) =>
                /\ counted = n
                /\ (loc[t].verdict = "guilty") <=> (loc[t].jt.guilty > loc[t].jt.innocent)

\* a tied judgment vote has given the verdict innocent
JudgmentTieIsInnocent ==
    \E t \in Tasks :
       /\ pc[t] = "bc"
       /\ loc[t].verdict = "innocent"
       /\ loc[t].jt.guilty = loc[t].jt.innocent
       /\ loc[t].jt.guilty >= 1

\* the end-of-phase transition that ran the judgment has returned with the verdict innocent
AcquittalCompleted(t) == pc[t] = "release" /\ loc[t].verdict = "innocent"

CreatedWithTownMajority ==
    /\ 0 < game.config.num_mafia
    /\ game.config.num_mafia < game.config.num_players - game.config.num_mafia

\* task t has returned from an end-of-phase transition and still holds the lock
TransitionCompleted(t) == pc[t] = "release" /\ loc[t].tick

\* C11: in a session created with 0 < conspirators < non-conspirators, when an
\* end-of-phase transition completes, the phase is GameOver with winner TOWN if no
\* conspirator is alive, GameOver with winner MAFIA if the living conspirators are
\* at least as many as the living others, and not GameOver otherwise; and whenever
\* the lock is free and the phase is not GameOver, 0 < living conspirators <
\* living non-conspirators.
WinCheckedAfterEveryElimination ==
    CreatedWithTownMajority =>
       /\ \A t \in Tasks :
             TransitionCompleted(t) =>
                IF MafiaCount(game) = 0
                THEN game.phase = GameOver /\ game.winner = "TOWN"
                ELSE IF MafiaCount(game) >= TownCount(game)
                THEN game.phase = GameOver /\ game.winner = "MAFIA"
                ELSE game.phase # GameOver /\ game.winner = None
       /\ (lock_owner = NoTask /\ game.phase # GameOver) =>
             (0 < MafiaCount(game) /\ MafiaCount(game) < TownCount(game))

\* a night kill has left as many conspirators as others, and the transition has
\* completed in GameOver
NightKillEndedTheGame ==
    /\ CreatedWithTownMajority
    /\ \E t \in Tasks : TransitionCompleted(t) /\ loc[t].cont = "n_adv"
    /\ \E p \in Players : ~game.is_alive[p]
    /\ game.winner = "MAFIA"

\* C12: a session no loop has been started for is in Discussion of day 1 with a
\* countdown of 10 whatever Discussion duration is configured; and the step that
\* ends the Discussion of day 1 leaves the session in Night with the configured
\* Night countdown, no accused player and a log no vote was added to.
FirstDayGoesStraightToNight ==
    /\ [](starts = 0 =>
            /\ game.phase = Discussion
            /\ game.day = 1
            /\ game.seconds_remaining = 10)
    /\ [][(game.phase = Discussion /\ game.day = 1 /\ game'.phase # Discussion) =>
            /\ game'.phase = Night
            /\ game'.day = 1
            /\ game'.seconds_remaining = Dur(game, Night)
            /\ game'.accused_id = NoOne
            /\ game'.transcript = game.transcript]_vars

\* the timer loop has completed the expiry of the first Discussion
FirstDiscussionExpired ==
    /\ game.phase = Night
    /\ game.day = 1
    /\ game.seconds_remaining = Dur(game, Night)
    /\ \E t \in Tasks : TransitionCompleted(t)

\* C13: the countdown is never negative, and no step of the session (tick,
\* micro-step, end-of-phase transition, manual step, pause, resume) lowers Day; a
\* step that changes Day is taken by the timer loop inside the expiry of a Night
\* whose countdown has run out, and raises Day by exactly 1.
CountdownNonNegativeDayMonotone ==
    /\ [](game.seconds_remaining >= 0)
    /\ [][/\ game'.day >= game.day
          /\ game'.day # game.day =>
                /\ game'.day = game.day + 1
                /\ game.phase = Night
                /\ game.seconds_remaining = 0
                /\ IsLoop(cur) /\ lock_owner = cur /\ loc[cur].tick]_vars

\* Day has gone up and the next countdown has run down to 0, with a pause or
\* resume and a manual step among the steps taken
SecondDayCountedDown ==
    /\ game.day = 2
    /\ game.seconds_remaining = 0
    /\ game.phase # GameOver
    /\ steps = 1
    /\ toggles = 1

\* task t is about to release the lock it took in phase p
ReleasingAfter(t, p) == pc[t] = "release" /\ loc[t].entered = p

NightExpiryRunsToCompletion ==
    \A t \in Tasks :
       /\ ~(pc[t] = "raise" /\ loc[t].entered = Night /\ loc[t].tick)
       /\ ~(pc[t] = "failed" /\ game.phase = Night /\ game.seconds_remaining = 0)

\* the fields of the session that a finished game keeps
Outcome(g) ==
    <<g.phase, g.day, g.seconds_remaining, g.winner, g.accused_id, g.pending_kills,
      g.is_alive, g.transcript>>

PausedLoopChangesNothing ==
    [][(/\ game.is_paused
        /\ game'.is_paused
        /\ \A t \in StepTasks : pc'[t] = pc[t] /\ loc'[t] = loc[t]) =>
       (game' = game /\ sent' = sent)]_vars

\* C18: a manual step forces a phase advance whatever the countdown: a step that
\* holds the lock with the countdown run out has performed the end-of-phase
\* transition, so it releases the lock in another phase than it found.
ManualStepEndsExpiredPhase ==
    \A t \in StepTasks :
       (pc[t] = "release" /\ game.seconds_remaining <= 0) =>
          game.phase # loc[t].entered

\* C19: every request for an id that has no session is answered NotFound, and
\* leaves storage.games and locks.game_locks without an entry for the id.
UnknownIdIsNotFound ==
    /\ reply # NoReply => (reply.id \notin games /\ reply.status = 404)
    /\ games = {GameId}
    /\ game_locks \subseteq games

\* the number of players of the stored session that hold role r
Holding(r) == Cardinality({p \in DOMAIN game.role : game.role[p] = r})

\* C20: for every configuration with num_mafia + (1 if has_detective else 0) <=
\* num_players, the session create_new_game stores has exactly num_players
\* players Player_0 .. Player_{n-1}, all alive, each with one role: exactly
\* num_mafia Mafia, one Detective exactly if has_detective, Villagers otherwise.
RolesDealtAsConfigured ==
    games = {GameId} =>
       LET c == game.config
           detectives == IF c.has_detective THEN 1 ELSE 0
       IN /\ DOMAIN game.role = 0..(c.num_players - 1)
          /\ Cardinality(DOMAIN game.role) = c.num_players
          /\ DOMAIN game.is_alive = DOMAIN game.role
          /\ \A p \in DOMAIN game.role : game.is_alive[p] /\ game.role[p] \in Role
          /\ Holding(Mafia) = c.num_mafia
          /\ Holding(Detective) = detectives
          /\ Holding(Villager) = c.num_players - c.num_mafia - detectives

\* five players, one Mafia and a detective: 1 Mafia, 1 Detective, 3 Villagers
FivePlayersDealt ==
    /\ games = {GameId}
    /\ game.config.num_players = 5
    /\ game.config.num_mafia = 1
    /\ game.config.has_detective
    /\ Holding(Mafia) = 1 /\ Holding(Detective) = 1 /\ Holding(Villager) = 3
    /\ game.role[0] = Detective

\* the oracle's answer to the call names the legal value v: v occurs in the
\* cleaned answer, whatever the case
Names(v) == v # <<>> /\ Contains(Lower(v), Lower(Strip(call.raw.content)))

\* C21: the forced-choice call returns one of its legal values, and it returns
\* abstain whenever the call fails or the oracle's answer names no legal value
\* (an empty or unparseable answer included).
ForcedChoiceAbstainsWithoutLegalValue ==
    returned # NotReturned =>
       /\ returned \in Range(call.valid_targets)
       /\ (call.raw.failed \/ \A k \in 1..Len(call.valid_targets) :
                                  ~Names(call.valid_targets[k])) =>
             returned = Abstain

\* the ballots counted in a vote_tally
RECURSIVE TallySum(_)
TallySum(tally) == IF tally = <<>> THEN 0 ELSE Head(tally)[2] + TallySum(Tail(tally))

\* the ballots counted in a verdict tally
VerdictBallots(jt) == jt.guilty + jt.innocent + jt.abstain

\* C22: in every aggregation round each eligible voter is polled exactly once.
\* While a round polls (nomination, verdict, kill vote), the voters polled so far
\* and the voters still to poll make up the eligible voters, and a failed oracle
\* call for the voter now polled counts one abstention for that voter and leaves
\* the other voters to be polled; when the round ends nobody is left to poll, every
\* eligible voter has one ballot, and the round has its outcome.
EveryVoterPolledOnce ==
    \A t \in Tasks :
       LET l == loc[t]
       IN /\ pc[t] = "dv_ret" =>
                LET r == day_votes_return(game, l, OracleFailure)
                IN /\ l.voters # <<>>
                   /\ (Len(game.transcript) - l.old_len) + Len(l.voters) = Len(l.ap)
                   /\ r.loc.voters = Tail(l.voters)
                   /\ r.loc.tally = l.tally
                   /\ Len(r.game.transcript) > Len(game.transcript)
          /\ (pc[t] = "dv_after" /\ l.ap # <<>>) =>
                /\ l.voters = <<>>
                /\ Len(game.transcript) - l.old_len \in {Len(l.ap) + 1, Len(l.ap) + 2}
                /\ l.acc \in Range(l.ap) \cup {NoOne}
          /\ pc[t] = "jd_ret" =>
                LET r == judgment_return(game, l, OracleFailure)
                IN /\ l.voters # <<>>
                   /\ VerdictBallots(l.jt) + Len(l.voters) = Len(l.ap)
                   /\ r.loc.voters = Tail(l.voters)
                   /\ r.loc.jt = [l.jt EXCEPT !.abstain = @ + 1]
          /\ (pc[t] = "jd_after" /\ l.ap # <<>>) =>
                /\ l.voters = <<>>
                /\ VerdictBallots(l.jt) = Len(l.ap)
                /\ l.verdict # None
          /\ pc[t] = "mv_ret" =>
                LET r == mafia_votes_return(game, l, OracleFailure)
                IN /\ l.voters # <<>>
                   /\ TallySum(l.tally) + Len(l.voters) = MafiaCount(game)
                   /\ r.loc.voters = Tail(l.voters)
                   /\ TallyCount(r.loc.tally, NoOne) = TallyCount(l.tally, NoOne) + 1
                   /\ TallySum(r.loc.tally) = TallySum(l.tally) + 1
          /\ (pc[t] = "di_start" /\ l.vt # <<>>) =>
                /\ l.voters = <<>>
                /\ TallySum(l.tally) = MafiaCount(game)

\* a verdict round has ended with an abstention counted next to a verdict
VerdictRoundWithAbstention ==
    \E t \in Tasks :
       /\ pc[t] = "jd_after"
       /\ loc[t].jt.abstain >= 1
       /\ loc[t].jt.guilty + loc[t].jt.innocent >= 1
       /\ loc[t].voters = <<>>

\* C23: a failed decide call is replaced by an inert default: the micro-step
\* that awaits the call appends no utterance to the log when the call fails.
FailedDecideAppendsNothing ==
    \A t \in Tasks :
       pc[t] = "disc_ret" =>
          discussion_return(game, loc[t], call_openrouter(DecideFailure)).game.transcript
             = game.transcript

\* the execution and night-result events of player p in the log
DeathEvents(g, p) ==
    SelectSeq(g.transcript,
              LAMBDA e : e.type \in {"execution", "night_result"} /\ e.subject = p)

\* C24: over every run of ticks and end-of-phase transitions, racing timer loops
\* included, the log holds at most one execution or night-result event per
\* player, a player with such an event is dead, and no step revives a player or
\* executes or kills a player who is already dead.
PlayersDieAtMostOnce ==
    /\ [](\A p \in Players :
             /\ Len(DeathEvents(game, p)) <= 1
             /\ DeathEvents(game, p) # <<>> => ~game.is_alive[p])
    /\ [][\A p \in Players :
             /\ ~game.is_alive[p] => ~game'.is_alive[p]
             /\ ~game.is_alive[p] => DeathEvents(game', p) = DeathEvents(game, p)]_vars

\* one player was killed in the night and another executed the day after, with
\* a second timer loop running
KilledThenAnotherExecuted ==
    /\ starts = 2
    /\ \E p, q \in Players :
          /\ p # q
          /\ \E e \in Range(DeathEvents(game, p)) : e.type = "night_result"
          /\ \E e \in Range(DeathEvents(game, q)) : e.type = "execution"

\* C25: no field of the stored session, is_paused included, is written unless
\* the task doing the write holds the session's lock: every step that changes
\* the session is a step of the task that owns the lock.
SessionWrittenOnlyUnderLock ==
    [][game' # game =>
         /\ lock_owner \in Tasks
         /\ \/ pc'[lock_owner] # pc[lock_owner]
            \/ loc'[lock_owner] # loc[lock_owner]]_vars

RunningLoops == {t \in LoopTasks : pc[t] \notin {"idle", "done", "failed"}}

\* C26: at most one timer loop is ever running for the session; a second call
\* of start(id) on a session whose loop is running creates no second loop.
AtMostOneTimerLoop == Cardinality(RunningLoops) <= 1

PublicOf(events) == SelectSeq(events, LAMBDA e : ~e.private)
IsPrefix(a, b) == Len(a) <= Len(b) /\ a = SubSeq(b, 1, Len(a))

\* C27: every public event appended to the log by a micro-step or an
\* end-of-phase transition is broadcast exactly once, and the broadcasts are
\* issued in the order of the appends: the public events passed to broadcast are
\* at every moment a prefix of the public events of the log, and all of them
\* once no task holds the lock.
PublicEventsBroadcastOnceInOrder ==
    /\ IsPrefix(PublicOf(stream), PublicOf(game.transcript))
    /\ lock_owner = NoTask => PublicOf(stream) = PublicOf(game.transcript)

NightAndTrialBroadcast ==
    /\ lock_owner = NoTask
    /\ \E i, j \in DOMAIN stream :
          /\ i < j
          /\ stream[i].type = "night_result"
          /\ stream[j].type = "execution"
    /\ \E i \in DOMAIN stream : stream[i].type = "chat" /\ stream[i].phase = Discussion
                                   /\ stream[i].speaker # System

\* C28: when a subscriber connects or disconnects while a publish is suspended
\* at a send, every other subscriber that stays connected throughout receives
\* the event exactly once.
SteadySubscribersReceiveOnce ==
    publish.state = "done" => \A c \in publish.throughout : publish.got[c] = 1

\* C29: one iteration of the timer loop on an unpaused, non-terminal session.
\* With the countdown c > 0 the loop calls the micro-step iff c is a multiple of
\* 5 and the phase is Discussion, Defense or Night, the micro-step leaves the
\* countdown and the phase alone, and the loop then sets the countdown to c - 1
\* and publishes one tick; with c = 0 it calls the end-of-phase transition, which
\* publishes no tick and never decrements: it leaves the countdown or reloads it
\* with the duration of the phase entered.
LoopIterationAsDocumented ==
    [][\A t \in LoopTasks :
          LET c == game.seconds_remaining
              micro == c % 5 = 0 /\ game.phase \in {Discussion, Defense, Night}
          IN /\ (pc[t] = "locked" /\ pc'[t] # "locked") =>
                   /\ game' = game
                   /\ (c > 0 /\ micro) => (pc'[t] = "ag" /\ ~loc'[t].tick)
                   /\ (c > 0 /\ ~micro) => pc'[t] = "after_micro"
                   /\ c <= 0 => (pc'[t] = "ag" /\ loc'[t].tick)
             /\ (/\ lock_owner = t
                 /\ pc[t] # "locked"
                 /\ pc'[t] # pc[t] \/ loc'[t] # loc[t]) =>
                   IF pc[t] = "after_micro"
                   THEN /\ game'.seconds_remaining = c - 1
                        /\ game'.phase = game.phase
                        /\ TickMessage(game') \in sent'
                        /\ pc'[t] = "release"
                   ELSE /\ \A m \in sent' \ sent : m.type # "phase_tick"
                        /\ ~loc[t].tick =>
                              /\ game'.seconds_remaining = c
                              /\ game'.phase = game.phase
                        /\ loc[t].tick =>
                              /\ pc'[t] # "after_micro"
                              /\ game'.seconds_remaining \in {c, Dur(game', game'.phase)}]_vars

DecrementedAfterDefenseMicroStep ==
    \E t \in LoopTasks :
       /\ pc[t] = "release"
       /\ ~loc[t].tick
       /\ game.phase = Defense
       /\ game.seconds_remaining = 4
       /\ TickMessage(game) \in sent
       /\ \E e \in Range(stream) : e.phase = Defense /\ e.speaker = game.accused_id

\* C30: the end-of-phase transition runs once for every entry into a phase, and
\* the timer loop never runs it a second time for the same entry.  A loop ends
\* as "failed" only when its run of the Night transition raised, which leaves
\* the session in that same Night with the countdown at 0; so no other loop is
\* ever found running the Night transition after one has failed.
TransitionNeverRunsTwiceForAnEntry ==
    \A t, u \in LoopTasks :
       ~(/\ t # u
         /\ pc[u] = "failed"
         /\ pc[t] \in {"ag", "raise"}
         /\ loc[t].tick
         /\ loc[t].entered = Night)

\* the players the phase lets speak: the living conspirators at Night, the
\* living accused and the living others in Defense, the living in Discussion
EligibleParticipants(g) ==
    CASE g.phase = Night -> {p \in PlayersOf(g) : g.is_alive[p] /\ g.role[p] = Mafia}
      [] g.phase = Defense ->
            IF g.accused_id \in PlayersOf(g) /\ g.is_alive[g.accused_id]
            THEN {p \in PlayersOf(g) : g.is_alive[p]} ELSE {}
      [] g.phase = Discussion -> {p \in PlayersOf(g) : g.is_alive[p]}
      [] OTHER -> {}

InMicroStep(t) == lock_owner = t /\ ~loc[t].tick /\ pc[t] \in AdvancePcs

\* C31: a micro-step appends at most one event to the log and leaves the phase,
\* the day, the countdown, the accused, the pending eliminations, the winner and
\* every alive flag and role as they were; in a phase with no eligible
\* participant it leaves the whole session as it was.
MicroStepFrame ==
    [][\A t \in Tasks :
          (InMicroStep(t) /\ (pc'[t] # pc[t] \/ loc'[t] # loc[t])) =>
             /\ [game' EXCEPT !.transcript = <<>>] = [game EXCEPT !.transcript = <<>>]
             /\ Len(game'.transcript) <= loc'[t].old_len + 1
             /\ IsPrefix(game.transcript, game'.transcript)
             /\ EligibleParticipants(game) = {} => game' = game]_vars

\* the first half of C31 alone
MicroStepAppendsAtMostOneEvent ==
    [][\A t \in Tasks :
          (InMicroStep(t) /\ (pc'[t] # pc[t] \/ loc'[t] # loc[t])) =>
             /\ [game' EXCEPT !.transcript = <<>>] = [game EXCEPT !.transcript = <<>>]
             /\ Len(game'.transcript) <= loc'[t].old_len + 1
             /\ IsPrefix(game.transcript, game'.transcript)]_vars

\* C32: every event a micro-step appends while the phase is Night is conspirator
\* chat: it is private and its speaker is a living conspirator; no Villager or
\* Detective speaks and no public chat event is appended by a Night tick.
NightTicksProduceConspiratorChat ==
    [][\A t \in Tasks :
          (InMicroStep(t) /\ game.phase = Night) =>
             \A i \in (Len(game.transcript) + 1)..Len(game'.transcript) :
                LET e == game'.transcript[i]
                IN /\ e.private
                   /\ e.speaker \in Players
                   /\ game.role[e.speaker] = Mafia
                   /\ game.is_alive[e.speaker]]_vars

PlayerUtterancesIn(g, ph) ==
    SelectSeq(g.transcript, LAMBDA e : e.phase = ph /\ e.speaker \in PlayersOf(g))

PublicChats(g) == SelectSeq(g.transcript, LAMBDA e : e.type = "chat" /\ ~e.private)

NominationRoundCountsLivingTargets ==
    \A t \in Tasks :
       LET l == loc[t]
       IN /\ pc[t] = "dv_ret" =>
                /\ l.ap = AlivePlayers(game)
                /\ l.voters # <<>>
                /\ l.voters = SubSeq(l.ap, Len(l.ap) - Len(l.voters) + 1, Len(l.ap))
                /\ TallySum(l.tally) <= Len(l.ap) - Len(l.voters)
                /\ TallyKeys(l.tally) \subseteq Range(l.ap)
                /\ \A raw \in RawVotes :
                      LET voter == Head(l.voters)
                          vote == call_structured_vote(
                                     raw, TargetNames(SelectSeq(l.ap, LAMBDA p : p # voter)))
                          named == {p \in Range(l.ap) \ {voter} : Lower(PName(p)) = Lower(vote)}
                          after == day_votes_return(game, l, raw).loc.tally
                      IN IF named = {}
                         THEN after = l.tally
                         ELSE /\ TallySum(after) = TallySum(l.tally) + 1
                              /\ \E p \in named :
                                    TallyCount(after, p) = TallyCount(l.tally, p) + 1
          /\ (pc[t] = "dv_after" /\ l.ap # <<>>) =>
                /\ l.voters = <<>>
                /\ TallySum(l.tally) <= Len(l.ap)
                /\ TallyKeys(l.tally) \subseteq Range(l.ap)

NominationCountedAndAbstained ==
    \E t \in Tasks :
       /\ pc[t] = "dv_after"
       /\ Len(loc[t].ap) >= 3
       /\ TallySum(loc[t].tally) \in 1..(Len(loc[t].ap) - 1)
       /\ \E p \in Players : ~game.is_alive[p]

\* C36: whenever the session's lock is free, accused_id is set if and only if
\* the phase is Defense, and a set accused_id is a living player of the session.
AccusedSetExactlyInDefense ==
    lock_owner = NoTask =>
       /\ game.accused_id # NoOne <=> game.phase = Defense
       /\ game.accused_id # NoOne =>
             (game.accused_id \in Players /\ game.is_alive[game.accused_id])

\* the lock free in a Defense that the loop has begun to count down
AccusedAwaitsJudgment ==
    /\ lock_owner = NoTask
    /\ game.phase = Defense
    /\ game.accused_id \in Players
    /\ game.seconds_remaining < Dur(game, Defense)

\* C37: in every reachable state the winner is set if and only if the phase is
\* GameOver; it is TOWN only when no conspirator is alive and MAFIA only when the
\* living conspirators are at least as many as the other living players; once
\* set it never changes.
WinnerSetExactlyAtGameOver ==
    /\ [](/\ game.winner # None <=> game.phase = GameOver
          /\ game.winner \in {None, "TOWN", "MAFIA"}
          /\ game.winner = "TOWN" => MafiaCount(game) = 0
          /\ game.winner = "MAFIA" =>
                (MafiaCount(game) > 0 /\ MafiaCount(game) >= TownCount(game)))
    /\ [][game.winner # None => game'.winner = game.winner]_vars

ConspiratorsWonAndLockReleased ==
    /\ game.winner = "MAFIA"
    /\ game.phase = GameOver
    /\ lock_owner = NoTask
    /\ \A t \in LoopTasks : pc[t] \in {"done", "idle"}

\* C38: in a session that is started and never paused, whose oracle calls all
\* return, every non-terminal phase is eventually left: the first Discussion is
\* followed by another phase, and the Night of day 1 by the Discussion of day 2
\* or by GameOver.
EveryPhaseEventuallyEnds ==
    /\ (game.phase = Discussion /\ game.day = 1) ~> (game.phase # Discussion)
    /\ (game.phase = Night /\ game.day = 1) ~>
          (game.phase = GameOver \/ (game.phase = Discussion /\ game.day = 2))

\* C39: every acquisition of the session's lock by the timer loop or by a manual
\* step is followed by its release once the oracle calls return, also when the
\* step raises; a task waiting for the lock is never left waiting for ever.
LockAlwaysReleased ==
    \A t \in Tasks :
       /\ (lock_owner = t) ~> (lock_owner # t)
       /\ (pc[t] = "wait_lock") ~> (pc[t] # "wait_lock")

\* a manual step holds the lock after the loop's Night expiry raised
StepLockedAfterLoopRaised ==
    \E t \in StepTasks : \E u \in LoopTasks :
       /\ lock_owner = t
       /\ pc[u] = "failed"

\* C40: when the oracle's cleaned output equals one of the legal values, case
\* apart, the forced choice returns exactly that legal value, also when one
\* legal name is a prefix of another (Player_1 and Player_10).
ExactLegalValueReturned ==
    (returned # NotReturned /\ ~call.raw.failed) =>
       \A k \in DOMAIN call.valid_targets :
          Lower(call.valid_targets[k]) = Lower(Strip(call.raw.content)) =>
             returned = call.valid_targets[k]

====
